---- MODULE Spec2Model ----
(***************************************************************************)
(* A model of the statement builder of longlonghands/sqlbuilder.           *)
(*                                                                         *)
(* Text is a sequence of tokens.  The marker "?" and the escape character  *)
(* "\\" are tokens of their own; every other token stands for a run of     *)
(* bytes that holds neither of them ("SELECT", "a", ", ", " ").  Offsets   *)
(* into a buffer (bufLow, bufHigh) count tokens.                           *)
(*                                                                         *)
(* A Go slice of statementPart is a pair (arr, len) into a heap of backing *)
(* arrays, so that two slices over one array see each other's writes.      *)
(***************************************************************************)
EXTENDS Integers, Sequences, FiniteSets, TLC

(***************************************************************************)
(* Bounds of the model.                                                    *)
(***************************************************************************)
MaxCalls == 4
NStmts == 3
\* the calls of a run of Clause calls
MaxClauses == 12

(***************************************************************************)
(* Program constants.                                                      *)
(***************************************************************************)
PartsCap == 8

posStart == 100
posWith == 200
posInsert == 300
posInsertFields == 400
posValues == 500
posDelete == 600
posUpdate == 700
posSet == 800
posSelect == 900
posInto == 1000
posFrom == 1100
posWhere == 1200
posGroupBy == 1300
posHaving == 1400
posUnion == 1500
posOrderBy == 1600
posLimit == 1700
posOffset == 1800
posReturning == 1900
posEnd == 2000

DefaultDialect == "DefaultDialect"
PostgreSQL == "PostgreSQL"
Dialects == {DefaultDialect, PostgreSQL}

StmtIds == 1..NStmts

Min(a, b) == IF a < b THEN a ELSE b
Max(a, b) == IF a > b THEN a ELSE b

(***************************************************************************)
(* Text constants of the source.                                           *)
(***************************************************************************)
space == <<" ">>
placeholder == <<"?">>
Esc == "\\"
Oob == "<oob>"

\* the bytes b[lo+1 .. hi] of a Go expression b[lo:hi]
Slice(b, lo, hi) == [k \in 1..(hi - lo) |-> b[lo + k]]

\* a read of b[lo:hi] of a byte buffer of length Len(b): the bytes past the
\* length are whatever the pooled backing array holds (or the read panics);
\* they are shown as the token Oob
BufSpan(b, lo, hi) ==
    [k \in 1..Max(hi - lo, 0) |-> IF lo + k <= Len(b) /\ lo + k >= 1 THEN b[lo + k] ELSE Oob]

\* TRUE iff t[i] is a marker that no escape character precedes
IsMarker(t, i) == t[i] = "?" /\ (i = 1 \/ t[i - 1] # Esc)

MarkerIdx(t) == {i \in 1..Len(t) : IsMarker(t, i)}
NumMarkers(t) == Cardinality(MarkerIdx(t))

(***************************************************************************)
(* statementPart and statement                                             *)
(***************************************************************************)
ZeroPart == [position |-> 0, bufLow |-> 0, bufHigh |-> 0, hasExpr |-> FALSE, argLen |-> 0]

\* newStmt: parts: make([]statementPart, 0, 8); every other field zero
newStmt(arr) ==
    [live |-> FALSE, dialect |-> DefaultDialect, position |-> 0,
     parts |-> [arr |-> arr, len |-> 0],
     buffer |-> <<>>,
     sql |-> <<>>, hasSql |-> FALSE,
     args |-> <<>>, dest |-> <<>>]

\* a backing array of capacity cap: el holds its elements up to the last one
\* ever written, the elements behind are zero
NewArray(n) == [cap |-> n, el |-> <<>>]

At(a, k) == IF k <= Len(a.el) THEN a.el[k] ELSE ZeroPart

SetAt(a, k, v) ==
    [a EXCEPT !.el = [j \in 1..Max(Len(a.el), k) |-> IF j = k THEN v ELSE At(a, j)]]

\* the elements a slice shows
PartsOf(heap, sl) == [k \in 1..sl.len |-> At(heap[sl.arr], k)]
CapOf(heap, sl) == heap[sl.arr].cap

(***************************************************************************)
(* insertAt (util-functions.go): src spliced into dest at index.  The      *)
(* caller decides the panic of a negative index.                           *)
(***************************************************************************)
insertAt(dest, src, index) ==
    IF Len(src) = 0 THEN dest
    ELSE IF index < Len(dest)
         THEN SubSeq(dest, 1, index) \o src \o SubSeq(dest, index + 1, Len(dest))
         ELSE dest \o src

\* copy(dst[start:], src): overwrites min(len(dst) - start, len(src)) elements
CopyAt(dst, start, src) ==
    [k \in 1..Len(dst) |->
        IF k > start /\ k - start <= Len(src) THEN src[k - start] ELSE dst[k]]

(***************************************************************************)
(* addPart (statement_impl.go).  A machine m is the statement a method     *)
(* works on, the heap of part arrays, whether the call is still running    *)
(* (ok = FALSE after a panic) and the index the last addPart returned.     *)
(***************************************************************************)
Machine(s, heap) == [stmt |-> s, heap |-> heap, ok |-> TRUE, index |-> 0]

Panic(m) == [m EXCEPT !.ok = FALSE]

\* the reverse scan "loop:" of addPart over parts[i-1], ..., parts[0]
\* a plausible slip: the search stops at the last part whatever its position
FindPartAtEnd(parts, pos, i, argTail) ==
    IF i = 0 THEN [kind |-> "none", i |-> 0, argTail |-> argTail]
    ELSE IF parts[i].position = pos THEN [kind |-> "match", i |-> i, argTail |-> argTail]
    ELSE [kind |-> "less", i |-> i, argTail |-> argTail]

RECURSIVE FindPart(_, _, _, _)
FindPart(parts, pos, i, argTail) ==
    IF i = 0 THEN [kind |-> "none", i |-> 0, argTail |-> argTail]
    ELSE IF parts[i].position = pos THEN [kind |-> "match", i |-> i, argTail |-> argTail]
    ELSE IF parts[i].position < pos THEN [kind |-> "less", i |-> i, argTail |-> argTail]
    ELSE FindPart(parts, pos, i - 1, argTail + parts[i].argLen)

\* a plausible slip: the separator of the clause whatever the part holds
SeparatorAlways(part, sep) == IF part.hasExpr THEN space ELSE sep

\* the separator written before an expression that extends a slot
Separator(part, sep) == IF part.hasExpr THEN sep ELSE space

\* the offset in stmt.args at which the arguments of a call are spliced
ArgOffset(nargs, argTail) == nargs - argTail

\* the offset in stmt.args of the parameter slots a value refresh overwrites
RefreshOffset(nargs, argTail, part) == nargs - argTail - part.argLen

\* stmt.Invalidate()
InvalidateStmt(s) == [s EXCEPT !.hasSql = FALSE, !.sql = <<>>]

\* "if argLen > 0 { stmt.args = insertAt(...) }; stmt.Invalidate()"
FinishAdd(m, args, argTail, index) ==
    LET s == m.stmt
        off == ArgOffset(Len(s.args), argTail)
    IN  IF Len(args) > 0 /\ off < 0 THEN Panic(m)
        ELSE [m EXCEPT !.stmt = InvalidateStmt([s EXCEPT !.args = insertAt(s.args, args, off)]),
                       !.index = index]

\* "if addNew { ... }": a new part written at Go index `index`
InsertNew(m, pos, clauseText, expr, argLen, index, bufLow) ==
    LET s == m.stmt
        buf == s.buffer \o clauseText \o expr
        old == PartsOf(m.heap, s.parts)
        n == s.parts.len
        grow == CapOf(m.heap, s.parts) = n
        arr == IF grow THEN Len(m.heap) + 1 ELSE s.parts.arr
        base == IF grow THEN [cap |-> 2 * n, el |-> old] ELSE m.heap[s.parts.arr]
        part == [position |-> pos, bufLow |-> bufLow, bufHigh |-> Len(buf),
                 hasExpr |-> expr # <<>>, argLen |-> argLen]
        new == [base EXCEPT !.el =
                   [k \in 1..Max(Len(base.el), n + 1) |->
                       IF k <= index THEN At(base, k)
                       ELSE IF k = index + 1 THEN part
                       ELSE IF k <= n + 1 THEN At(base, k - 1)
                       ELSE At(base, k)]]
        heap2 == IF grow THEN Append(m.heap, new) ELSE [m.heap EXCEPT ![arr] = new]
    IN  [m EXCEPT !.stmt = [s EXCEPT !.buffer = buf, !.parts = [arr |-> arr, len |-> n + 1]],
                  !.heap = heap2]

addPart(m, pos, clause, expr, args, sep) ==
    IF ~m.ok THEN m
    ELSE
    LET s == [m.stmt EXCEPT !.position = pos]
        m1 == [m EXCEPT !.stmt = s]
        argLen == Len(args)
        bufLow == Len(s.buffer)
        parts == PartsOf(m.heap, s.parts)
        f == FindPart(parts, pos, s.parts.len, 0)
        kw == IF clause # <<>> THEN clause \o (IF expr # <<>> THEN space ELSE <<>>) ELSE <<>>
    IN  IF f.kind = "match"
        THEN LET part == parts[f.i] IN
             IF expr = <<>>
             THEN \* a value refresh: returns before Invalidate
                  LET start == RefreshOffset(Len(s.args), f.argTail, part) IN
                  IF argLen = 0 THEN [m1 EXCEPT !.index = f.i - 1]
                  ELSE IF start < 0 \/ start > Len(s.args) THEN Panic(m1)
                  ELSE [m1 EXCEPT !.stmt.args = CopyAt(s.args, start, args), !.index = f.i - 1]
             ELSE LET buf1 == s.buffer \o Separator(part, sep) IN
                  IF part.bufHigh = bufLow
                  THEN \* extend the existing part
                       LET buf2 == buf1 \o expr
                           p2 == [part EXCEPT !.argLen = @ + argLen, !.bufHigh = Len(buf2),
                                              !.hasExpr = TRUE]
                       IN  FinishAdd([m1 EXCEPT !.stmt.buffer = buf2,
                                                !.heap[s.parts.arr] = SetAt(@, f.i, p2)],
                                     args, f.argTail, f.i - 1)
                  ELSE \* a new part after the matched one, without the clause
                       FinishAdd(InsertNew([m1 EXCEPT !.stmt.buffer = buf1],
                                           pos, <<>>, expr, argLen, f.i, bufLow),
                                 args, f.argTail, f.i)
        ELSE LET index == IF f.kind = "less" THEN f.i ELSE 0 IN
             FinishAdd(InsertNew(m1, pos, kw, expr, argLen, index, bufLow),
                       args, f.argTail, index)

(***************************************************************************)
(* The render pass.  Every token of the output carries the buffer offset   *)
(* it was copied from (off, 0 for a byte the pass itself writes) and       *)
(* whether it is a numbered marker written by writePostgresql (mk).        *)
(***************************************************************************)
Out(tok, off, mk) == [tok |-> tok, off |-> off, mk |-> mk]

\* strconv.AppendInt after the byte '$'
Numbered(argNo) == "$" \o ToString(argNo)

\* buffer[bufLow:bufHigh] with the offset of every byte
SpanOf(b, part) ==
    LET t == BufSpan(b, part.bufLow, part.bufHigh)
    IN  [k \in 1..Len(t) |-> Out(t[k], part.bufLow + k, FALSE)]

\* TRUE iff the bytes at i, i+1 of s are the escape sequence of a marker
IsEscape(s, i) == s[i].tok = Esc /\ i < Len(s) /\ s[i + 1].tok = "?"

\* a writePostgresql that takes every '\' for an escape of the byte after it
RECURSIVE writePostgresqlEager(_, _, _, _)
writePostgresqlEager(argNo, s, i, buf) ==
    IF i > Len(s) THEN [argNo |-> argNo, buf |-> buf]
    ELSE IF s[i].tok = Esc /\ i < Len(s)
         THEN writePostgresqlEager(argNo, s, i + 2, Append(buf, Out(s[i + 1].tok, s[i + 1].off, FALSE)))
    ELSE IF s[i].tok = "?"
         THEN writePostgresqlEager(argNo + 1, s, i + 1, Append(buf, Out(Numbered(argNo), s[i].off, TRUE)))
    ELSE writePostgresqlEager(argNo, s, i + 1, Append(buf, s[i]))

\* writePostgresql (dialect.go): s copied to the output from byte i on
RECURSIVE writePostgresql(_, _, _, _)
writePostgresql(argNo, s, i, buf) ==
    IF i > Len(s) THEN [argNo |-> argNo, buf |-> buf]
    ELSE IF IsEscape(s, i)
         THEN writePostgresql(argNo, s, i + 2, Append(buf, Out("?", s[i + 1].off, FALSE)))
    ELSE IF s[i].tok = "?"
         THEN writePostgresql(argNo + 1, s, i + 1, Append(buf, Out(Numbered(argNo), s[i].off, TRUE)))
    ELSE writePostgresql(argNo, s, i + 1, Append(buf, s[i]))

\* "if part.argLen > 0 && stmt.dialect == PostgreSQL"
Rewrites(part, dialect) == part.argLen > 0 /\ dialect = PostgreSQL

\* "if n > 0 && part.position > pos": n is the Go index of the part
NeedsSpace(n, part, pos) == n > 0 /\ part.position > pos

\* the loop of String() from part n (1-based) on
RECURSIVE RenderFrom(_, _, _, _, _, _)
RenderFrom(s, parts, n, pos, argNo, buf) ==
    IF n > Len(parts) THEN buf
    ELSE LET part == parts[n]
             buf1 == IF NeedsSpace(n - 1, part, pos) THEN Append(buf, Out(" ", 0, FALSE)) ELSE buf
             span == SpanOf(s.buffer, part)
             w == IF Rewrites(part, s.dialect)
                  THEN writePostgresql(argNo, span, 1, buf1)
                  ELSE [argNo |-> argNo, buf |-> buf1 \o span]
         IN  RenderFrom(s, parts, n + 1, part.position, w.argNo, w.buf)

\* a render pass over the current fragment list under the current dialect
Render(s, heap) == RenderFrom(s, PartsOf(heap, s.parts), 1, 0, 1, <<>>)

Toks(r) == [k \in 1..Len(r) |-> r[k].tok]

\* what String() returns: the cached text when there is one
StringOut(s, heap) == IF s.hasSql THEN s.sql ELSE Render(s, heap)
StringOf(s, heap) == Toks(StringOut(s, heap))

\* the statement after String()
Rendered(s, heap) == [s EXCEPT !.hasSql = TRUE, !.sql = StringOut(s, heap)]

(***************************************************************************)
(* The clause methods of statement (statement.go), as steps of a machine.  *)
(***************************************************************************)
Select(m, expr, args) == addPart(m, posSelect, <<"SELECT">>, expr, args, <<", ">>)

From(m, expr, args) == addPart(m, posFrom, <<"FROM">>, expr, args, <<", ">>)

Where(m, expr, args) == addPart(m, posWhere, <<"WHERE">>, expr, args, <<" AND ">>)

GroupBy(m, expr) == addPart(m, posGroupBy, <<"GROUP BY">>, expr, <<>>, <<", ">>)

Having(m, expr, args) == addPart(m, posHaving, <<"HAVING">>, expr, args, <<" AND ">>)

OrderBy(m, expr) == addPart(m, posOrderBy, <<"ORDER BY">>, expr, <<>>, <<", ">>)

Returning(m, expr) == addPart(m, posReturning, <<"RETURNING">>, expr, <<>>, <<", ">>)

Limit(m, limit) == addPart(m, posLimit, <<"LIMIT ", "?">>, <<>>, <<limit>>, <<>>)

Offset(m, offset) == addPart(m, posOffset, <<"OFFSET ", "?">>, <<>>, <<offset>>, <<>>)

\* InsertInto: the table, the brackets of the column list and of VALUES
InsertInto(m, tableName) ==
    LET m1 == addPart(m, posInsert, <<"INSERT INTO">>, tableName, <<>>, <<", ">>)
        m2 == addPart(m1, posInsertFields - 1, <<"(">>, <<>>, <<>>, <<>>)
        m3 == addPart(m2, posValues - 1, <<") VALUES (">>, <<>>, <<>>, <<>>)
        m4 == addPart(m3, posValues + 1, <<")">>, <<>>, <<>>, <<>>)
    IN  IF m4.ok THEN [m4 EXCEPT !.stmt.position = posInsertFields] ELSE m4

Update(m, tableName) == addPart(m, posUpdate, <<"UPDATE">>, tableName, <<>>, <<", ">>)

\* "for _, chunk := range stmt.parts": the first INSERT or UPDATE part
RECURSIVE VerbOf(_, _)
VerbOf(parts, n) ==
    IF n > Len(parts) THEN 0
    ELSE IF parts[n].position \in {posInsert, posUpdate} THEN parts[n].position
    ELSE VerbOf(parts, n + 1)

SetExpr(m, field, expr, args) ==
    LET p == VerbOf(PartsOf(m.heap, m.stmt.parts), 1)
    IN  IF p = posInsert
        THEN addPart(addPart(m, posInsertFields, <<>>, field, <<>>, <<", ">>),
                     posValues, <<>>, expr, args, <<", ">>)
        ELSE IF p = posUpdate
        THEN addPart(m, posSet, <<"SET">>, field \o <<"=">> \o expr, args, <<", ">>)
        ELSE m

Set(m, field, value) == SetExpr(m, field, <<"?">>, <<value>>)

\* Paginate: Offset only for a page after the first, then Limit
Paginate(m, page, pageSize) ==
    LET pg == IF page < 1 THEN 1 ELSE page
        sz == IF pageSize < 1 THEN 1 ELSE pageSize
    IN  Limit(IF pg > 1 THEN Offset(m, (pg - 1) * sz) ELSE m, sz)

ExprSpaced(m, expr, args) == addPart(m, m.stmt.position, <<>>, expr, args, <<" ">>)

\* join: joinType, table, " ON (", on, ")" without a clause keyword
join(m, joinType, table, on) ==
    addPart(m, posFrom, <<>>, <<joinType>> \o table \o <<" ON (">> \o on \o <<")">>, <<>>, <<" ">>)

Join(m, table, on) == join(m, "JOIN ", table, on)

LeftJoin(m, table, on) == join(m, "LEFT JOIN ", table, on)

\* the markers In writes: "?," for every arg but the last, "?" for the last
InMarkers(n) == [k \in 1..(2 * n - 1) |-> IF k % 2 = 1 THEN "?" ELSE ","]

In(m, args) ==
    addPart(m, posWhere, <<>>, <<"IN (">> \o InMarkers(Len(args)) \o <<")">>, args, <<" ">>)

Expr(m, expr, args) == addPart(m, m.stmt.position, <<>>, expr, args, <<", ">>)

\* the position Clause and Union compute from the last part
LastPosition(m) == At(m.heap[m.stmt.parts.arr], m.stmt.parts.len).position

\* Clause without the stride of 10 after the last part
ClausePosNoStride(m) == IF m.stmt.parts.len > 0 THEN LastPosition(m) ELSE posStart

ClausePos(m) == IF m.stmt.parts.len > 0 THEN LastPosition(m) + 10 ELSE posStart

Clause(m, expr, args) == addPart(m, ClausePos(m), expr, <<>>, args, <<", ">>)

\* statement.SetDialect: the cached text is left as it is
SetDialectOf(s, value) == [s EXCEPT !.dialect = value]

\* reuseStmt: position and dialect keep their values, parts keeps its array
reuseStmt(s) ==
    [s EXCEPT !.parts.len = 0, !.args = <<>>, !.dest = <<>>, !.buffer = <<>>,
              !.sql = <<>>, !.hasSql = FALSE, !.live = FALSE]

\* a getStmt that leaves the dialect of the pooled statement as it is
getStmtKeep(s, d) == [s EXCEPT !.buffer = <<>>, !.live = TRUE]

\* getStmt: a statement of the pool, with the dialect d and an empty buffer
getStmt(s, d) == [s EXCEPT !.dialect = d, !.buffer = <<>>, !.live = TRUE]

\* New: "stmt := getStmt(selectedDialect); stmt.addPart(posSelect, verb, "", args, ", ")",
\* d is the value read from selectedDialect
New(s, hp, d, verb, args) ==
    addPart(Machine(getStmt(s, d), hp), posSelect, verb, <<>>, args, <<", ">>)

\* "if query.GetDialect() != DefaultDialect { SetDialect; Invalidate }"
ForceDefault(q) ==
    IF q.dialect # DefaultDialect THEN InvalidateStmt(SetDialectOf(q, DefaultDialect)) ELSE q

\* the text of the nested statement that SubQuery and Union write to the host
NestedText(q, heap) == StringOf(ForceDefault(q), heap)

SubQueryDelimiter(position) == IF position = posWhere THEN <<" AND ">> ELSE <<", ">>

\* the tail of SubQuery and Union: the text is written, then chunk.bufHigh = Len
Embed(m, text) ==
    IF ~m.ok THEN m
    ELSE LET s == m.stmt
             buf == s.buffer \o text
             chunk == At(m.heap[s.parts.arr], m.index + 1)
         IN  [m EXCEPT !.stmt.buffer = buf,
                       !.heap[s.parts.arr] =
                           SetAt(@, m.index + 1, [chunk EXCEPT !.bufHigh = Len(buf)])]

\* SubQuery on the host of m with the nested statement q
SubQuery(m, prefix, suffix, q) ==
    LET m1 == addPart(m, m.stmt.position, <<>>, prefix, q.args,
                      SubQueryDelimiter(m.stmt.position))
    IN  Embed(m1, NestedText(q, m1.heap) \o suffix)

\* With without its addPart(posWith, "WITH", ...)
WithAtCurrent(m, queryName, q) == SubQuery(m, <<queryName, " AS (">>, <<")">>, q)

With(m, queryName, q) ==
    SubQuery(addPart(m, posWith, <<"WITH">>, <<>>, <<>>, <<>>),
             <<queryName, " AS (">>, <<")">>, q)

\* Union on the fixed slot posUnion
UnionPosFixed(m) == posUnion

UnionPos(m) ==
    IF m.stmt.parts.len > 0 /\ LastPosition(m) >= posUnion THEN LastPosition(m) + 1 ELSE posUnion

Union(m, all, q) ==
    LET m1 == addPart(m, UnionPos(m), IF all THEN <<"UNION ALL ">> ELSE <<"UNION ">>,
                      <<>>, q.args, <<>>)
    IN  Embed(m1, NestedText(q, m1.heap))

(***************************************************************************)
(* Clone.  append(stmt.parts, stmt.parts...) writes the copy behind the    *)
(* elements of stmt.parts in the same array when its capacity allows, and  *)
(* into a new array of twice the capacity otherwise.                       *)
(***************************************************************************)
AppendSelf(heap, sl) ==
    LET n == sl.len
        old == heap[sl.arr]
        dbl(c) == [cap |-> c,
                   el |-> [k \in 1..Max(Len(old.el), 2 * n) |->
                              IF k <= n THEN At(old, k)
                              ELSE IF k <= 2 * n THEN At(old, k - n)
                              ELSE At(old, k)]]
    IN  IF n = 0 THEN [heap |-> heap, parts |-> sl]
        ELSE IF 2 * n <= old.cap
        THEN [heap |-> [heap EXCEPT ![sl.arr] = dbl(old.cap)],
              parts |-> [arr |-> sl.arr, len |-> 2 * n]]
        ELSE [heap |-> Append(heap, [cap |-> 2 * old.cap, el |-> dbl(0).el]),
              parts |-> [arr |-> Len(heap) + 1, len |-> 2 * n]]

\* the parts of the new statement
CloneParts(heap, src, new) ==
    IF CapOf(heap, new.parts) < src.parts.len
    THEN \* make(len, len+2), then copy(stmt.parts, stmt.parts)
         [heap |-> Append(heap, NewArray(src.parts.len + 2)),
          parts |-> [arr |-> Len(heap) + 1, len |-> src.parts.len]]
    ELSE AppendSelf(heap, src.parts)

\* Clone of src into the pooled statement new: [heap, stmt]
Clone(heap, src, new) ==
    LET n0 == getStmt(new, src.dialect)
        cp == CloneParts(heap, src, n0)
    IN  [heap |-> cp.heap,
         stmt |-> [n0 EXCEPT !.parts = cp.parts,
                            !.args = insertAt(n0.args, src.args, 0),
                            !.dest = insertAt(n0.dest, src.dest, 0),
                            !.buffer = n0.buffer \o src.buffer,
                            !.hasSql = src.hasSql,
                            !.sql = IF src.hasSql THEN src.sql ELSE <<>>]]

\* To: the destinations are appended to stmt.dest
To(s, dest) == [s EXCEPT !.dest = insertAt(s.dest, dest, Len(s.dest))]

(***************************************************************************)
(* State.                                                                  *)
(*   stmts    the statement objects: live ones and the ones of stmtPool    *)
(*   heap     the backing arrays of the parts slices                       *)
(*   selectedDialect  the package variable                                 *)
(*   panicked a call has panicked                                          *)
(*   ncalls   the number of clause calls made                              *)
(*   pool     the byte buffers of bytebufferpool and the strings handed    *)
(*            out over them                                                *)
(*   thr      the goroutines that run SetDialect and New side by side      *)
(* History variables, read by the properties only:                         *)
(*   intent   per statement and buffer offset, the value last supplied     *)
(*            for the marker written there (0: no marker)                  *)
(*   hist     per statement, the clause calls made on it                   *)
(*   last     the last call                                                *)
(***************************************************************************)
VARIABLES stmts, heap, selectedDialect, panicked, ncalls, intent, hist, last, pool, thr

vars == <<stmts, heap, selectedDialect, panicked, ncalls, intent, hist, last, pool, thr>>

\* the bodies a call is made with: n makes the text of every call its own
BodyKinds == {"plain", "marked", "escaped"}

Body(kind, n) ==
    LET f == "f" \o ToString(n)
    IN  CASE kind = "plain" -> <<f>>
          [] kind = "marked" -> <<f, "?">>
          [] kind = "escaped" -> <<f, Esc, "?">>
          [] kind = "empty" -> <<>>
          [] kind = "lone" -> <<f, "?", Esc>>
          [] kind = "stray" -> <<f, Esc, "x", "?">>

BodyArgs(kind, n) == IF kind \in {"marked", "lone", "stray"} THEN <<n>> ELSE <<>>

\* the value a call supplies
Fresh == ncalls + 1

\* the values vals given, in order, to the markers of the bytes t
RECURSIVE Tag(_, _, _, _)
Tag(t, i, k, vals) ==
    IF i > Len(t) THEN <<>>
    ELSE IF IsMarker(t, i)
         THEN <<IF k <= Len(vals) THEN vals[k] ELSE 0>> \o Tag(t, i + 1, k + 1, vals)
         ELSE <<0>> \o Tag(t, i + 1, k, vals)

\* the index of the first part of position pos, 0 if there is none
FirstAt(parts, pos) ==
    IF \E k \in 1..Len(parts) : parts[k].position = pos
    THEN CHOOSE k \in 1..Len(parts) :
            parts[k].position = pos /\ \A j \in 1..(k - 1) : parts[j].position # pos
    ELSE 0

\* a call that writes nothing supplies its values to the markers of the
\* clause text its slot begins with
Retag(it, s, hp, pos, clause, vals) ==
    LET parts == PartsOf(hp, s.parts)
        k == FirstAt(parts, pos)
        lo == IF k = 0 THEN 0 ELSE parts[k].bufLow
        tags == Tag(clause, 1, 1, vals)
    IN  IF k # 0 /\ BufSpan(s.buffer, lo, lo + Len(clause)) = clause
        THEN [o \in 1..Len(it) |->
                 IF o > lo /\ o <= lo + Len(clause) /\ IsMarker(clause, o - lo)
                 THEN tags[o - lo] ELSE it[o]]
        ELSE it

IntentAfter(it, old, new, hp, pos, clause, vals) ==
    IF Len(new.buffer) > Len(old.buffer)
    THEN it \o Tag(Slice(new.buffer, Len(old.buffer), Len(new.buffer)), 1, 1, vals)
    ELSE IF vals # <<>> THEN Retag(it, new, hp, pos, clause, vals)
    ELSE it

\* TRUE iff the call supplied as many values as its text has markers
BalancedCall(old, new, clause, vals) ==
    IF Len(new.buffer) > Len(old.buffer)
    THEN NumMarkers(Slice(new.buffer, Len(old.buffer), Len(new.buffer))) = Len(vals)
    ELSE NumMarkers(clause) = Len(vals)

CanCall(s) == ~panicked /\ ncalls < MaxCalls /\ stmts[s].live

\* an entry of hist.  text: what String() of the embedded statement returned,
\* or the field of a Set call; bal: the call supplied as many values as its text has
\* markers (an embed: so did every call on the embedded statement); pure: the call embedded no statement that had its dialect set
Entry(op, pos, expr, args, bal) ==
    [op |-> op, pos |-> pos, expr |-> expr, args |-> args, bal |-> bal, pure |-> TRUE,
     text |-> <<>>]

\* the last call: op on the statement s (and the statement t), which held
\* nargs arguments and nbuf buffer bytes before it; parts, args and string
\* are its fragment list, its arguments and a render of it before the call
\* what a client sees of every statement: String() and Args()
Views == [i \in StmtIds |-> [live |-> stmts[i].live, string |-> StringOf(stmts[i], heap),
                             args |-> stmts[i].args]]

Last(op, s, t) ==
    [op |-> op, s |-> s, t |-> t, nargs |-> Len(stmts[s].args), nbuf |-> Len(stmts[s].buffer),
     parts |-> PartsOf(heap, stmts[s].parts), args |-> stmts[s].args,
     string |-> Render(stmts[s], heap), views |-> Views]

\* the last call was op on s, a call that adds nothing to a statement
Seen(op, s) ==
    [op |-> op, s |-> s, t |-> 0, nargs |-> 0, nbuf |-> 0,
     parts |-> <<>>, args |-> <<>>, string |-> <<>>, views |-> Views]

\* the state after the clause call op on s has taken the machine to m;
\* text is the field a Set call names
CommitCall(s, m, op, pos, clause, expr, vals, text) ==
    /\ ncalls' = ncalls + 1
    /\ last' = Last(op, s, 0)
    /\ UNCHANGED selectedDialect
    /\ IF m.ok
       THEN /\ stmts' = [stmts EXCEPT ![s] = m.stmt]
            /\ heap' = m.heap
            /\ intent' = [intent EXCEPT
                            ![s] = IntentAfter(@, stmts[s], m.stmt, m.heap, pos, clause, vals)]
            /\ hist' = [hist EXCEPT
                          ![s] = Append(@, [Entry(op, pos, expr, vals,
                                                  BalancedCall(stmts[s], m.stmt, clause, vals))
                                            EXCEPT !.text = text])]
            /\ UNCHANGED panicked
       ELSE /\ panicked' = TRUE
            /\ UNCHANGED <<stmts, heap, intent, hist>>

\* a clause call of a client that keeps no string and runs no goroutine
CommitText(s, m, op, pos, clause, expr, vals, text) ==
    /\ CommitCall(s, m, op, pos, clause, expr, vals, text)
    /\ UNCHANGED <<pool, thr>>

Commit(s, m, op, pos, clause, expr, vals) == CommitText(s, m, op, pos, clause, expr, vals, <<>>)

M(s) == Machine(stmts[s], heap)

(***************************************************************************)
(* The calls of a client.                                                  *)
(***************************************************************************)
CallSelect(s, kind) ==
    /\ CanCall(s)
    /\ Commit(s, Select(M(s), Body(kind, Fresh), BodyArgs(kind, Fresh)),
              "Select", posSelect, <<"SELECT">>, Body(kind, Fresh), BodyArgs(kind, Fresh))

CallFrom(s, kind) ==
    /\ CanCall(s)
    /\ Commit(s, From(M(s), Body(kind, Fresh), BodyArgs(kind, Fresh)),
              "From", posFrom, <<"FROM">>, Body(kind, Fresh), BodyArgs(kind, Fresh))

CallWhere(s, kind) ==
    /\ CanCall(s)
    /\ Commit(s, Where(M(s), Body(kind, Fresh), BodyArgs(kind, Fresh)),
              "Where", posWhere, <<"WHERE">>, Body(kind, Fresh), BodyArgs(kind, Fresh))

CallGroupBy(s) ==
    /\ CanCall(s)
    /\ Commit(s, GroupBy(M(s), Body("plain", Fresh)),
              "GroupBy", posGroupBy, <<"GROUP BY">>, Body("plain", Fresh), <<>>)

CallHaving(s, kind) ==
    /\ CanCall(s)
    /\ Commit(s, Having(M(s), Body(kind, Fresh), BodyArgs(kind, Fresh)),
              "Having", posHaving, <<"HAVING">>, Body(kind, Fresh), BodyArgs(kind, Fresh))

CallOrderBy(s) ==
    /\ CanCall(s)
    /\ Commit(s, OrderBy(M(s), Body("plain", Fresh)),
              "OrderBy", posOrderBy, <<"ORDER BY">>, Body("plain", Fresh), <<>>)

CallReturning(s) ==
    /\ CanCall(s)
    /\ Commit(s, Returning(M(s), Body("plain", Fresh)),
              "Returning", posReturning, <<"RETURNING">>, Body("plain", Fresh), <<>>)

CallJoin(s, left) ==
    /\ CanCall(s)
    /\ LET table == <<"u" \o ToString(Fresh)>>
           on    == <<"c" \o ToString(Fresh)>>
           type  == IF left THEN "LEFT JOIN " ELSE "JOIN "
       IN  Commit(s, IF left THEN LeftJoin(M(s), table, on) ELSE Join(M(s), table, on),
                  "Join", posFrom, <<>>, <<type>> \o table \o <<" ON (">> \o on \o <<")">>, <<>>)

CallIn(s, n) ==
    /\ CanCall(s)
    /\ LET vals == [k \in 1..n |-> 10 * Fresh + k]
       IN  Commit(s, In(M(s), vals), "In", posWhere, <<>>,
                  <<"IN (">> \o InMarkers(n) \o <<")">>, vals)

\* Where("", v1, .., vn): a call without body that supplies n values
CallWhereArgs(s, n) ==
    /\ CanCall(s)
    /\ LET vals == [k \in 1..n |-> 10 * Fresh + k]
       IN  Commit(s, Where(M(s), <<>>, vals), "Where", posWhere, <<"WHERE">>, <<>>, vals)

CallLimit(s) ==
    /\ CanCall(s)
    /\ Commit(s, Limit(M(s), Fresh), "Limit", posLimit, <<"LIMIT ", "?">>, <<>>, <<Fresh>>)

CallOffset(s) ==
    /\ CanCall(s)
    /\ Commit(s, Offset(M(s), Fresh), "Offset", posOffset, <<"OFFSET ", "?">>, <<>>, <<Fresh>>)

\* the field a Set call names
Field(n) == <<"c" \o ToString(n)>>

CallInsertInto(s) ==
    /\ CanCall(s)
    /\ Commit(s, InsertInto(M(s), <<"t">>), "InsertInto", posInsertFields, <<>>, <<"t">>, <<>>)

CallUpdate(s) ==
    /\ CanCall(s)
    /\ Commit(s, Update(M(s), <<"t">>), "Update", posUpdate, <<>>, <<"t">>, <<>>)

CallSet(s) ==
    /\ CanCall(s)
    /\ LET m == Set(M(s), Field(Fresh), Fresh)
       IN  CommitText(s, m, "Set", m.stmt.position, <<>>, <<"?">>, <<Fresh>>, Field(Fresh))

CallSetExpr(s, kind) ==
    /\ CanCall(s)
    /\ LET m == SetExpr(M(s), Field(Fresh), Body(kind, Fresh), BodyArgs(kind, Fresh))
       IN  CommitText(s, m, "SetExpr", m.stmt.position, <<>>, Body(kind, Fresh),
                      BodyArgs(kind, Fresh), Field(Fresh))

CallPaginate(s, page, pageSize) ==
    /\ CanCall(s)
    /\ Commit(s, Paginate(M(s), page, pageSize), "Paginate", posLimit, <<>>,
              <<page, pageSize>>, <<>>)

CallExpr(s, kind) ==
    /\ CanCall(s)
    /\ Commit(s, Expr(M(s), Body(kind, Fresh), BodyArgs(kind, Fresh)),
              "Expr", stmts[s].position, <<>>, Body(kind, Fresh), BodyArgs(kind, Fresh))

CallClause(s, kind) ==
    /\ CanCall(s)
    /\ Commit(s, Clause(M(s), Body(kind, Fresh), BodyArgs(kind, Fresh)),
              "Clause", ClausePos(M(s)), Body(kind, Fresh), Body(kind, Fresh),
              BodyArgs(kind, Fresh))

\* String(): the text is cached
CallString(s) ==
    /\ ~panicked /\ stmts[s].live /\ ~stmts[s].hasSql
    /\ stmts' = [stmts EXCEPT ![s] = Rendered(@, heap)]
    /\ last' = Seen("String", s)
    /\ UNCHANGED <<heap, selectedDialect, panicked, ncalls, intent, hist, pool, thr>>

\* statement.SetDialect
CallSetDialect(s, value) ==
    /\ CanCall(s) /\ stmts[s].dialect # value
    /\ stmts' = [stmts EXCEPT ![s] = SetDialectOf(@, value)]
    /\ hist' = [hist EXCEPT ![s] = Append(@, Entry("SetDialect", 0, <<>>, <<>>, TRUE))]
    /\ ncalls' = ncalls + 1
    /\ last' = Last("SetDialect", s, 0)
    /\ UNCHANGED <<heap, selectedDialect, panicked, intent, pool, thr>>

\* statement.Invalidate
CallInvalidate(s) ==
    /\ ~panicked /\ stmts[s].live /\ stmts[s].hasSql
    /\ stmts' = [stmts EXCEPT ![s] = InvalidateStmt(@)]
    /\ last' = Seen("Invalidate", s)
    /\ UNCHANGED <<heap, selectedDialect, panicked, ncalls, intent, hist, pool, thr>>

\* To
CallTo(s) ==
    /\ CanCall(s)
    /\ stmts' = [stmts EXCEPT ![s] = To(@, <<Fresh>>)]
    /\ hist' = [hist EXCEPT ![s] = Append(@, Entry("To", 0, <<>>, <<>>, TRUE))]
    /\ ncalls' = ncalls + 1
    /\ last' = Last("To", s, 0)
    /\ UNCHANGED <<heap, selectedDialect, panicked, intent, pool, thr>>

\* the tokens of a rendered text that stem from a marker of the buffer,
\* in text order
RECURSIVE MarkerEntries(_, _)
MarkerEntries(r, buffer) ==
    IF r = <<>> THEN <<>>
    ELSE (IF Head(r).off >= 1 /\ Head(r).off <= Len(buffer) /\ IsMarker(buffer, Head(r).off)
          THEN <<Head(r)>> ELSE <<>>) \o MarkerEntries(Tail(r), buffer)

\* the values supplied for the markers of String(), in text order
Supplied(s, heap0, it) ==
    LET mk == MarkerEntries(StringOut(s, heap0), s.buffer)
    IN  [i \in 1..Len(mk) |-> IF mk[i].off <= Len(it) THEN it[mk[i].off] ELSE 0]

\* every call made so far supplied as many values as its text has markers
Balanced(s) == \A k \in 1..Len(hist[s]) : hist[s][k].bal

\* every call on s was a clause call, and so for the statements it embedded
OnlyClauseCalls(s) ==
    \A k \in 1..Len(hist[s]) : hist[s][k].op # "SetDialect" /\ hist[s][k].pure

\* the state after s has embedded q (SubQuery, With, Union) and closed it
CommitEmbed(s, q, m, op, pos, expr) ==
    LET nested == ForceDefault(stmts[q])
        vals == Supplied(nested, heap, intent[q])
    IN  /\ ncalls' = ncalls + 1
        /\ last' = Last(op, s, q)
        /\ UNCHANGED <<selectedDialect, pool, thr>>
        /\ IF m.ok
           THEN /\ stmts' = [stmts EXCEPT ![s] = m.stmt, ![q] = reuseStmt(nested)]
                /\ heap' = m.heap
                /\ intent' = [intent EXCEPT
                                ![s] = IntentAfter(@, stmts[s], m.stmt, m.heap, pos, <<>>, vals),
                                ![q] = <<>>]
                /\ hist' = [hist EXCEPT
                              ![s] = Append(@, [Entry(op, pos, expr, stmts[q].args, Balanced(q))
                                                EXCEPT !.pure = OnlyClauseCalls(q),
                                                       !.text = NestedText(stmts[q], heap)]),
                              ![q] = <<>>]
                /\ UNCHANGED panicked
           ELSE /\ panicked' = TRUE
                /\ UNCHANGED <<stmts, heap, intent, hist>>

CanEmbed(s, q) == CanCall(s) /\ q # s /\ stmts[q].live

CallSubQuery(s, prefix, q) ==
    /\ CanEmbed(s, q)
    /\ CommitEmbed(s, q, SubQuery(M(s), prefix, <<")">>, stmts[q]),
                   "SubQuery", stmts[s].position, prefix)

CallWith(s, q) ==
    /\ CanEmbed(s, q)
    /\ CommitEmbed(s, q, With(M(s), "cte", stmts[q]), "With", posWith, <<"cte", " AS (">>)

CallUnion(s, all, q) ==
    /\ CanEmbed(s, q)
    /\ CommitEmbed(s, q, Union(M(s), all, stmts[q]), "Union", UnionPos(M(s)),
                   IF all THEN <<"UNION ALL ">> ELSE <<"UNION ">>)

\* WithDialect: a statement of the pool starts a new life
CallWithDialect(s, d) ==
    /\ ~panicked /\ ~stmts[s].live
    /\ stmts' = [stmts EXCEPT ![s] = getStmt(@, d)]
    /\ last' = Seen("WithDialect", s)
    /\ UNCHANGED <<heap, selectedDialect, panicked, ncalls, intent, hist, pool, thr>>

\* the package function SetDialect: the process-wide dialect becomes d
CallSetDialectPkg(d) ==
    /\ ~panicked /\ selectedDialect # d
    /\ selectedDialect' = d
    /\ last' = Seen("SetDialectPkg", 0)
    /\ UNCHANGED <<stmts, heap, panicked, ncalls, intent, hist, pool, thr>>

\* New("SELECT"): a statement of the pool starts a new life under the
\* process-wide dialect; the entry of hist keeps the dialect read
CallNew(s) ==
    /\ ~panicked /\ ncalls < MaxCalls /\ ~stmts[s].live
    /\ CommitText(s, New(stmts[s], heap, selectedDialect, <<"SELECT">>, <<>>),
                  "New", posSelect, <<"SELECT">>, <<>>, <<>>, <<selectedDialect>>)

\* Close: the statement goes back to the pool
CallClose(s) ==
    /\ CanCall(s)
    /\ stmts' = [stmts EXCEPT ![s] = reuseStmt(@)]
    /\ intent' = [intent EXCEPT ![s] = <<>>]
    /\ hist' = [hist EXCEPT ![s] = <<>>]
    /\ ncalls' = ncalls + 1
    /\ last' = Last("Close", s, 0)
    /\ UNCHANGED <<heap, selectedDialect, panicked, pool, thr>>

\* Clone of s into a statement of the pool
CallClone(s, new) ==
    /\ CanCall(s) /\ ~stmts[new].live
    /\ LET c == Clone(heap, stmts[s], stmts[new])
       IN  /\ stmts' = [stmts EXCEPT ![new] = c.stmt]
           /\ heap' = c.heap
    /\ intent' = [intent EXCEPT ![new] = intent[s]]
    /\ hist' = [hist EXCEPT ![new] = <<Entry("Clone", s, <<>>, <<>>, TRUE)>>]
    /\ ncalls' = ncalls + 1
    /\ last' = Last("Clone", s, new)
    /\ UNCHANGED <<selectedDialect, panicked, pool, thr>>

(***************************************************************************)
(* The byte buffers.  getBuffer and putBuffer take the ByteBuffers of      *)
(* stmt.buffer and stmt.sql from bytebufferpool and give them back; a      *)
(* ByteBuffer that is given back keeps its backing array, and its next     *)
(* user writes over the bytes of the array from the start.  String()       *)
(* returns bufferToString(&stmt.sql.B): a string over the backing array    *)
(* of stmt.sql, not a copy.                                                *)
(*   pool.arrays  the bytes of every backing array                         *)
(*   pool.free    the arrays of the ByteBuffers in the pool                *)
(*   pool.buf     per statement, the array of stmt.buffer (0: nil)         *)
(*   pool.sql     per statement, the array of stmt.sql (0: nil)            *)
(*   pool.held    the strings String() has returned: the array each one    *)
(*                points into and the text it had when it was returned     *)
(***************************************************************************)
EmptyPool ==
    [arrays |-> <<>>, free |-> {}, buf |-> [i \in StmtIds |-> 0],
     sql |-> [i \in StmtIds |-> 0], held |-> {}]

\* the ByteBuffers bytebufferpool.Get may return: one of the pool or a new one
GetChoices(p) == p.free \cup {Len(p.arrays) + 1}

\* getBuffer returns the ByteBuffer over the array b, reset to length 0
getBuffer(p, b) ==
    IF b \in p.free THEN [p EXCEPT !.free = @ \ {b}]
    ELSE [p EXCEPT !.arrays = Append(@, <<>>)]

\* putBuffer: the ByteBuffer over the array b goes back to the pool
putBuffer(p, b) == IF b = 0 THEN p ELSE [p EXCEPT !.free = @ \cup {b}]

\* the array a after the first k bytes of t were written over it
Overlay(a, t, k) == [j \in 1..Max(Len(a), k) |-> IF j <= k THEN t[j] ELSE a[j]]

\* the ByteBuffer over the array b is written until it holds t: in place
\* while the array has room, which it has for the bytes it held before; when
\* it is grown, append moves the ByteBuffer to a new array.  The result is
\* the pool and the array of the ByteBuffer.
WriteBuffer(p, b, t, grown) ==
    LET a == p.arrays[b]
    IN  IF Len(t) <= Len(a) \/ ~grown
        THEN [pool |-> [p EXCEPT !.arrays[b] = Overlay(a, t, Len(t))], arr |-> b]
        ELSE [pool |-> [p EXCEPT !.arrays = Append([@ EXCEPT ![b] = Overlay(a, t, Len(a))], t)],
              arr |-> Len(p.arrays) + 1]

\* the bytes a string over the array arr of length n reads
StringAt(p, arr, n) == [j \in 1..n |-> IF j <= Len(p.arrays[arr]) THEN p.arrays[arr][j] ELSE Oob]

\* Invalidate: "if stmt.sql != nil { putBuffer(stmt.sql); stmt.sql = nil }"
PoolInvalidated(p, s) == [putBuffer(p, p.sql[s]) EXCEPT !.sql[s] = 0]

\* the pool after a clause call took the statement s from old to new
PoolAfterCall(p, s, old, new, grown) ==
    LET w == WriteBuffer(p, p.buf[s], new.buffer, grown)
        p1 == [w.pool EXCEPT !.buf[s] = w.arr]
    IN  IF old.hasSql /\ ~new.hasSql THEN PoolInvalidated(p1, s) ELSE p1

\* WithDialect with the ByteBuffer getStmt takes for stmt.buffer
PoolWithDialect(s, d) ==
    /\ ~panicked /\ ~stmts[s].live
    /\ stmts' = [stmts EXCEPT ![s] = getStmt(@, d)]
    /\ \E b \in GetChoices(pool) : pool' = [getBuffer(pool, b) EXCEPT !.buf[s] = b]
    /\ last' = Seen("WithDialect", s)
    /\ UNCHANGED <<heap, selectedDialect, panicked, ncalls, intent, hist, thr>>

\* Select and Where with the bytes they write to stmt.buffer
PoolSelect(s) ==
    /\ CanCall(s)
    /\ LET m == Select(M(s), Body("plain", Fresh), <<>>)
       IN  /\ CommitCall(s, m, "Select", posSelect, <<"SELECT">>, Body("plain", Fresh), <<>>, <<>>)
           /\ \E grown \in BOOLEAN :
                 pool' = IF m.ok THEN PoolAfterCall(pool, s, stmts[s], m.stmt, grown) ELSE pool
    /\ UNCHANGED thr

PoolWhere(s) ==
    /\ CanCall(s)
    /\ LET m == Where(M(s), Body("marked", Fresh), <<Fresh>>)
       IN  /\ CommitCall(s, m, "Where", posWhere, <<"WHERE">>, Body("marked", Fresh), <<Fresh>>, <<>>)
           /\ \E grown \in BOOLEAN :
                 pool' = IF m.ok THEN PoolAfterCall(pool, s, stmts[s], m.stmt, grown) ELSE pool
    /\ UNCHANGED thr

\* String(): the text is written to a ByteBuffer taken for stmt.sql and the
\* string over its array is returned to the client, who keeps it
PoolString(s) ==
    /\ CanCall(s) /\ ~stmts[s].hasSql
    /\ stmts' = [stmts EXCEPT ![s] = Rendered(@, heap)]
    /\ \E b \in GetChoices(pool) : \E grown \in BOOLEAN :
          LET text == StringOf(stmts[s], heap)
              w == WriteBuffer(getBuffer(pool, b), b, text, grown)
          IN  pool' = [w.pool EXCEPT !.sql[s] = w.arr,
                                     !.held = @ \cup {[arr |-> w.arr, text |-> text]}]
    /\ ncalls' = ncalls + 1
    /\ last' = Seen("String", s)
    /\ UNCHANGED <<heap, selectedDialect, panicked, intent, hist, thr>>

\* statement.Invalidate
PoolInvalidate(s) ==
    /\ ~panicked /\ stmts[s].live /\ stmts[s].hasSql
    /\ stmts' = [stmts EXCEPT ![s] = InvalidateStmt(@)]
    /\ pool' = PoolInvalidated(pool, s)
    /\ last' = Seen("Invalidate", s)
    /\ UNCHANGED <<heap, selectedDialect, panicked, ncalls, intent, hist, thr>>

\* Close: reuseStmt gives stmt.buffer and stmt.sql back
PoolClose(s) ==
    /\ CanCall(s)
    /\ stmts' = [stmts EXCEPT ![s] = reuseStmt(@)]
    /\ pool' = [putBuffer(putBuffer(pool, pool.buf[s]), pool.sql[s])
                   EXCEPT !.buf[s] = 0, !.sql[s] = 0]
    /\ intent' = [intent EXCEPT ![s] = <<>>]
    /\ hist' = [hist EXCEPT ![s] = <<>>]
    /\ ncalls' = ncalls + 1
    /\ last' = Last("Close", s, 0)
    /\ UNCHANGED <<heap, selectedDialect, panicked, thr>>

(***************************************************************************)
(* Goroutines.  One goroutine runs the package function SetDialect, one    *)
(* runs New; thr holds where each of them is:                              *)
(*   thr.w  "store": SetDialect(thr.d) is about to write selectedDialect   *)
(*   thr.c  "load":  New is about to read selectedDialect for the          *)
(*                   statement thr.s                                       *)
(***************************************************************************)
Idle == [w |-> "idle", d |-> DefaultDialect, c |-> "idle", s |-> 0]

\* "atomic.StoreUint32((*uint32)(&selectedDialect), uint32(dialect))"
StoreAccess == [g |-> "w", write |-> TRUE, atomic |-> TRUE]

\* "getStmt(selectedDialect)": the variable is read as an ordinary variable
LoadAccess == [g |-> "c", write |-> FALSE, atomic |-> FALSE]

\* the accesses to selectedDialect the goroutines are about to make
Pending ==
    (IF thr.w = "store" THEN {StoreAccess} ELSE {}) \cup
    (IF thr.c = "load" THEN {LoadAccess} ELSE {})

\* two goroutines are about to access the variable, one of them writes and
\* the accesses are not both atomic
DataRace ==
    \E a, b \in Pending : a.g # b.g /\ (a.write \/ b.write) /\ ~(a.atomic /\ b.atomic)

\* the values the read of New may return: the value of the variable, or in
\* a data race the value being stored
ReadOutcomes == IF DataRace THEN {selectedDialect, thr.d} ELSE {selectedDialect}

\* a goroutine calls SetDialect(d)
GoSetDialect(d) ==
    /\ ~panicked /\ thr.w = "idle" /\ selectedDialect # d
    /\ thr' = [thr EXCEPT !.w = "store", !.d = d]
    /\ UNCHANGED <<stmts, heap, selectedDialect, panicked, ncalls, intent, hist, last, pool>>

\* the store of SetDialect
StoreDialect ==
    /\ thr.w = "store"
    /\ selectedDialect' = thr.d
    /\ thr' = [thr EXCEPT !.w = "idle"]
    /\ last' = Seen("SetDialectPkg", 0)
    /\ UNCHANGED <<stmts, heap, panicked, ncalls, intent, hist, pool>>

\* a goroutine calls New("SELECT")
GoNew(s) ==
    /\ ~panicked /\ ncalls < MaxCalls /\ thr.c = "idle" /\ ~stmts[s].live
    /\ thr' = [thr EXCEPT !.c = "load", !.s = s]
    /\ UNCHANGED <<stmts, heap, selectedDialect, panicked, ncalls, intent, hist, last, pool>>

\* the read of New, and the rest of New
LoadDialect ==
    /\ thr.c = "load"
    /\ \E d \in ReadOutcomes :
          CommitCall(thr.s, New(stmts[thr.s], heap, d, <<"SELECT">>, <<>>),
                     "New", posSelect, <<"SELECT">>, <<>>, <<>>, <<d>>)
    /\ thr' = [thr EXCEPT !.c = "idle", !.s = 0]
    /\ UNCHANGED pool

(***************************************************************************)
(* Specifications.                                                         *)
(***************************************************************************)
\* the statements of Live were handed out by WithDialect, the others are
\* what stmtPool.Get returns when newStmt makes them
InitWith(Live) ==
    /\ \E d \in [Live -> Dialects] :
          stmts = [i \in StmtIds |->
                      IF i \in Live THEN getStmt(newStmt(i), d[i]) ELSE newStmt(i)]
    /\ heap = [i \in StmtIds |-> NewArray(PartsCap)]
    /\ selectedDialect = DefaultDialect
    /\ panicked = FALSE
    /\ ncalls = 0
    /\ intent = [i \in StmtIds |-> <<>>]
    /\ hist = [i \in StmtIds |-> <<>>]
    /\ pool = EmptyPool
    /\ thr = Idle
    /\ last = Seen("WithDialect", 0)

\* one statement under construction
Init == InitWith({1})

Next ==
    \E s \in StmtIds :
        \/ \E kind \in {"plain", "marked"} : CallSelect(s, kind)
        \/ CallFrom(s, "plain")
        \/ \E kind \in BodyKinds : CallWhere(s, kind)
        \/ CallGroupBy(s)
        \/ CallHaving(s, "marked")
        \/ CallOrderBy(s)
        \/ CallReturning(s)
        \/ CallLimit(s)
        \/ CallOffset(s)
        \/ \E kind \in {"plain", "marked"} : CallExpr(s, kind)
        \/ \E kind \in {"marked", "empty"} : CallClause(s, kind)

Spec == Init /\ [][Next]_vars

\* a host and a statement it embeds
InitEmbed == InitWith({1, 2})

NextEmbed ==
    \/ \E s \in {1, 2} :
          \/ \E kind \in {"plain", "marked"} : CallWhere(s, kind)
          \/ CallLimit(s)
          \/ CallString(s)
    \/ \E value \in Dialects : CallSetDialect(2, value)
    \/ \E prefix \in {<<>>, <<"(">>} : CallSubQuery(1, prefix, 2)
    \/ CallWith(1, 2)
    \/ \E all \in BOOLEAN : CallUnion(1, all, 2)
    \/ \E d \in Dialects : CallWithDialect(2, d)

SpecEmbed == InitEmbed /\ [][NextEmbed]_vars

\* a statement built with every kind of clause call, and a nested statement
NextBuild ==
    \/ CallInsertInto(1)
    \/ CallUpdate(1)
    \/ CallSet(1)
    \/ CallSetExpr(1, "plain")
    \/ \E s \in {1, 2} : CallWhere(s, "marked")
    \/ CallLimit(1)
    \/ \E kind \in {"plain", "marked"} : CallExpr(1, kind)
    \/ CallClause(1, "marked")
    \/ \E prefix \in {<<>>, <<"(">>} : CallSubQuery(1, prefix, 2)
    \/ CallWith(1, 2)
    \/ CallUnion(1, FALSE, 2)

SpecBuild == InitEmbed /\ [][NextBuild]_vars

\* a host that embeds statements taken from the pool, cloned or new, while the
\* pool hands the released storage out again
NextPool ==
    \/ \E s \in {1, 2} : CallWhere(s, "marked")
    \/ CallLimit(2)
    \/ CallSubQuery(1, <<"(">>, 2)
    \/ CallWith(1, 2)
    \/ \E all \in BOOLEAN : CallUnion(1, all, 2)
    \/ CallClone(1, 2)
    \/ \E d \in Dialects : CallWithDialect(2, d)

SpecPool == Init /\ [][NextPool]_vars

\* the pages of a result
Pages == {0, 1, 2}
PageSizes == {0, 3}

NextPage ==
    \E s \in {1} :
        \/ CallWhere(s, "marked")
        \/ CallLimit(s)
        \/ CallOffset(s)
        \/ CallReturning(s)
        \/ CallString(s)
        \/ \E page \in Pages, pageSize \in PageSizes : CallPaginate(s, page, pageSize)

SpecPage == Init /\ [][NextPage]_vars

\* calls that hit a fragment again without a body, and renders between them
NextRefresh ==
    \E s \in {1} :
        \/ CallWhere(s, "marked")
        \/ \E n \in 0..2 : CallWhereArgs(s, n)
        \/ CallLimit(s)
        \/ CallOffset(s)
        \/ CallExpr(s, "marked")
        \/ CallString(s)

SpecRefresh == Init /\ [][NextRefresh]_vars

\* slots that take a keyword call and continuation calls, in any order
NextSlot ==
    \E s \in {1} :
        \/ CallSelect(s, "plain")
        \/ CallFrom(s, "plain")
        \/ \E left \in BOOLEAN : CallJoin(s, left)
        \/ \E kind \in {"plain", "marked"} : CallWhere(s, kind)
        \/ \E n \in 0..2 : CallIn(s, n)
        \/ \E kind \in {"plain", "marked"} : CallExpr(s, kind)
        \/ CallLimit(s)

SpecSlot == Init /\ [][NextSlot]_vars

\* a statement in the middle of a long run of calls
CanCallLong(s) == ~panicked /\ ncalls < MaxClauses /\ stmts[s].live

CallClauseLong(s) ==
    /\ CanCallLong(s)
    /\ Commit(s, Clause(M(s), Body("plain", Fresh), <<>>),
              "Clause", ClausePos(M(s)), Body("plain", Fresh), Body("plain", Fresh), <<>>)

CallWhereLong(s) ==
    /\ CanCallLong(s)
    /\ Commit(s, Where(M(s), Body("plain", Fresh), <<>>),
              "Where", posWhere, <<"WHERE">>, Body("plain", Fresh), <<>>)

\* long runs of Clause calls around named clauses
NextClause ==
    \E s \in {1} :
        \/ CallFrom(s, "plain")
        \/ CallClauseLong(s)
        \/ CallWhereLong(s)

SpecClause == Init /\ [][NextClause]_vars

\* every statement starts in the pool
InitPooled == InitWith({})

\* statements that are created, built, rendered and closed while the
\* process-wide dialect changes
NextLife ==
    \/ \E d \in Dialects : CallSetDialectPkg(d)
    \/ \E s \in {1, 2} :
          \/ CallNew(s)
          \/ \E d \in Dialects : CallWithDialect(s, d)
          \/ \E kind \in {"plain", "marked"} : CallWhere(s, kind)
          \/ CallExpr(s, "plain")
          \/ CallString(s)
          \/ CallClose(s)

SpecLife == InitPooled /\ [][NextLife]_vars

\* fragments with escape characters that escape no marker, rendered under
\* either dialect
NextEscape ==
    \E s \in {1} :
        \/ CallSelect(s, "plain")
        \/ \E kind \in {"marked", "escaped", "lone", "stray"} : CallWhere(s, kind)
        \/ CallHaving(s, "marked")
        \/ CallLimit(s)
        \/ CallString(s)

SpecEscape == Init /\ [][NextEscape]_vars

\* a client that keeps the strings String() returns while it goes on
\* building, invalidating, closing and creating statements
NextString ==
    \/ \E s \in {1, 2} :
          \/ PoolWithDialect(s, DefaultDialect)
          \/ PoolWhere(s)
          \/ PoolString(s)
          \/ PoolClose(s)
    \/ PoolSelect(1)
    \/ PoolInvalidate(1)

SpecString == InitPooled /\ [][NextString]_vars

\* SetDialect in one goroutine, New in another, and the statements made
NextRace ==
    \/ \E d \in Dialects : GoSetDialect(d)
    \/ StoreDialect
    \/ \E s \in {1, 2} : GoNew(s)
    \/ LoadDialect
    \/ \E s \in {1, 2} :
          \/ CallWhere(s, "marked")
          \/ CallString(s)
          \/ CallClose(s)

SpecRace == InitPooled /\ [][NextRace]_vars

\* a statement and its clones
NextClone ==
    \E s \in StmtIds :
        \/ CallSelect(s, "plain")
        \/ CallWhere(s, "marked")
        \/ CallLimit(s)
        \/ CallTo(s)
        \/ \E value \in Dialects : CallSetDialect(s, value)
        \/ CallString(s)
        \/ CallInvalidate(s)
        \/ \E new \in StmtIds : CallClone(s, new)

SpecClone == Init /\ [][NextClone]_vars

(***************************************************************************)
(* What a client observes.                                                 *)
(***************************************************************************)
LiveIds == {s \in StmtIds : stmts[s].live}

String(s) == StringOf(stmts[s], heap)
Args(s) == stmts[s].args
Dest(s) == stmts[s].dest
Parts(s) == PartsOf(heap, stmts[s].parts)

\* the calls of a history made on the position pos, in call order
RECURSIVE EntriesAt(_, _)
EntriesAt(seq, pos) ==
    IF seq = <<>> THEN <<>>
    ELSE (IF Head(seq).pos = pos THEN <<Head(seq)>> ELSE <<>>) \o EntriesAt(Tail(seq), pos)

\* the parts of position pos, in list order
RECURSIVE PartsAt(_, _)
PartsAt(parts, pos) ==
    IF parts = <<>> THEN <<>>
    ELSE (IF Head(parts).position = pos THEN <<Head(parts)>> ELSE <<>>)
         \o PartsAt(Tail(parts), pos)

RECURSIVE Flatten(_)
Flatten(seqs) == IF seqs = <<>> THEN <<>> ELSE Head(seqs) \o Flatten(Tail(seqs))

\* TRUE iff t occurs in u as a run of consecutive tokens
Occurs(t, u) == \E k \in 0..(Len(u) - Len(t)) : Slice(u, k, k + Len(t)) = t

(***************************************************************************)
(* The body-bearing clauses.                                               *)
(***************************************************************************)
BodySlots == {posSelect, posFrom, posWhere, posGroupBy, posHaving, posOrderBy, posReturning}

KeywordOf(pos) ==
    CASE pos = posSelect -> "SELECT" [] pos = posFrom -> "FROM" [] pos = posWhere -> "WHERE"
      [] pos = posGroupBy -> "GROUP BY" [] pos = posHaving -> "HAVING"
      [] pos = posOrderBy -> "ORDER BY" [] pos = posReturning -> "RETURNING"

MethodOf(pos) ==
    CASE pos = posSelect -> "Select" [] pos = posFrom -> "From" [] pos = posWhere -> "Where"
      [] pos = posGroupBy -> "GroupBy" [] pos = posHaving -> "Having"
      [] pos = posOrderBy -> "OrderBy" [] pos = posReturning -> "Returning"

JoinerOf(pos) == IF pos \in {posWhere, posHaving} THEN " AND " ELSE ", "

\* the calls made on the slot pos of s, in call order
CallsAt(s, pos) == EntriesAt(hist[s], pos)

\* the slot received calls of its own clause method only, each with a body
OwnCallsOnly(s, pos) ==
    LET c == CallsAt(s, pos)
    IN  /\ c # <<>>
        /\ \A k \in 1..Len(c) : c[k].op = MethodOf(pos) /\ c[k].expr # <<>>

\* keyword, one space, the bodies joined by the separator of the clause
Accumulated(s, pos) ==
    LET c == CallsAt(s, pos)
    IN  <<KeywordOf(pos), " ">> \o
        Flatten([k \in 1..Len(c) |->
                    (IF k > 1 THEN <<JoinerOf(pos)>> ELSE <<>>) \o c[k].expr])

\* what the render pass writes for the parts of position pos, before any
\* marker is rewritten
SlotText(s, pos) ==
    Toks(RenderFrom([stmts[s] EXCEPT !.dialect = DefaultDialect],
                    PartsAt(Parts(s), pos), 1, 0, 1, <<>>))

(***************************************************************************)
(* C3.  A body-bearing clause called N times with non-empty bodies, with   *)
(* calls on other positions interleaved, renders its slot as the keyword   *)
(* once, one space, and the bodies joined by the clause's separator in     *)
(* call order; in the default dialect String() holds that text.            *)
(***************************************************************************)
C3_Accumulation ==
    \A s \in LiveIds : \A pos \in BodySlots :
        OwnCallsOnly(s, pos) =>
            /\ SlotText(s, pos) = Accumulated(s, pos)
            /\ stmts[s].dialect = DefaultDialect => Occurs(Accumulated(s, pos), String(s))

\* a slot extended twice, the second time after a call on another position
C3_Witness ==
    \E s \in LiveIds : \E pos \in BodySlots :
        /\ OwnCallsOnly(s, pos)
        /\ Len(CallsAt(s, pos)) >= 2
        /\ Cardinality({k \in 1..Len(Parts(s)) : Parts(s)[k].position = pos}) >= 2
        /\ stmts[s].dialect = DefaultDialect

(***************************************************************************)
(* The clause calls whose grammatical position is fixed by the method.     *)
(***************************************************************************)
NamedCalls ==
    [op : {"Select"}, kind : {"plain", "marked"}]
    \cup [op : {"Where"}, kind : BodyKinds]
    \cup [op : {"Having"}, kind : {"marked"}]
    \cup [op : {"From", "GroupBy", "OrderBy", "Returning"}, kind : {"plain"}]
    \cup [op : {"Limit", "Offset"}, kind : {"marked"}]

PosOfCall(c) ==
    CASE c.op = "Select" -> posSelect [] c.op = "From" -> posFrom [] c.op = "Where" -> posWhere
      [] c.op = "GroupBy" -> posGroupBy [] c.op = "Having" -> posHaving
      [] c.op = "OrderBy" -> posOrderBy [] c.op = "Returning" -> posReturning
      [] c.op = "Limit" -> posLimit [] c.op = "Offset" -> posOffset

\* the call c made as the n-th call
Do(m, c, n) ==
    CASE c.op = "Select" -> Select(m, Body(c.kind, n), BodyArgs(c.kind, n))
      [] c.op = "From" -> From(m, Body(c.kind, n), BodyArgs(c.kind, n))
      [] c.op = "Where" -> Where(m, Body(c.kind, n), BodyArgs(c.kind, n))
      [] c.op = "GroupBy" -> GroupBy(m, Body(c.kind, n))
      [] c.op = "Having" -> Having(m, Body(c.kind, n), BodyArgs(c.kind, n))
      [] c.op = "OrderBy" -> OrderBy(m, Body(c.kind, n))
      [] c.op = "Returning" -> Returning(m, Body(c.kind, n))
      [] c.op = "Limit" -> Limit(m, n)
      [] c.op = "Offset" -> Offset(m, n)

Outputs(m) == [ok |-> m.ok, string |-> StringOf(m.stmt, m.heap), args |-> m.stmt.args]

(***************************************************************************)
(* C2.  From any reachable statement, two clause calls on different        *)
(* grammatical positions give the same String() and the same Args() in     *)
(* either order.                                                           *)
(***************************************************************************)
C2_OrderInvariance ==
    \A s \in LiveIds : \A a, b \in NamedCalls :
        PosOfCall(a) # PosOfCall(b) =>
            Outputs(Do(Do(M(s), a, Fresh), b, Fresh + 1))
                = Outputs(Do(Do(M(s), b, Fresh + 1), a, Fresh))

(***************************************************************************)
(* The escape sequences of the fragments of a statement: the buffer        *)
(* offsets of an escape character that a marker character follows within   *)
(* the span of one part.                                                   *)
(***************************************************************************)
EscapesOf(s) ==
    {o \in 1..(Len(stmts[s].buffer) - 1) :
        /\ stmts[s].buffer[o] = Esc
        /\ stmts[s].buffer[o + 1] = "?"
        /\ \E k \in 1..Len(Parts(s)) : Parts(s)[k].bufLow < o /\ o + 1 <= Parts(s)[k].bufHigh}

\* the numbered markers of a rendered text, in text order
RECURSIVE MarkersOf(_)
MarkersOf(r) ==
    IF r = <<>> THEN <<>>
    ELSE (IF Head(r).mk THEN <<Head(r)>> ELSE <<>>) \o MarkersOf(Tail(r))

\* the markers are $1, $2, ..., $k in text order
NumberedInOrder(r) ==
    LET mks == MarkersOf(r) IN \A i \in 1..Len(mks) : mks[i].tok = Numbered(i)

(***************************************************************************)
(* C6.  In the numbered dialect every escape sequence of a fragment body,  *)
(* whatever the number of args of the body, is rendered as one literal     *)
(* marker character: the escape character is not written, and the markers  *)
(* that follow keep their numbers.                                         *)
(***************************************************************************)
C6_EscapeFidelity ==
    \A s \in LiveIds :
        stmts[s].dialect = PostgreSQL =>
            LET r == Render(stmts[s], heap) IN
            /\ \A o \in EscapesOf(s) :
                  /\ \A i \in 1..Len(r) : r[i].off # o
                  /\ \E i \in 1..Len(r) : r[i].off = o + 1 /\ r[i].tok = "?" /\ ~r[i].mk
            /\ NumberedInOrder(r)

(***************************************************************************)
(* C1.  For a statement built from calls that each supply as many values   *)
(* as their text has markers, Args() lists, in text order, the value       *)
(* supplied for each marker of String(): one value per marker.             *)
(***************************************************************************)
C1_ParamCorrespondence ==
    \A s \in LiveIds :
        Balanced(s) => Args(s) = Supplied(stmts[s], heap, intent[s])

\* the calls op made on s, in call order
RECURSIVE CallsOf(_, _)
CallsOf(seq, op) ==
    IF seq = <<>> THEN <<>>
    ELSE (IF Head(seq).op = op THEN <<Head(seq)>> ELSE <<>>) \o CallsOf(Tail(seq), op)

\* the indices of the token tok in the text t
IndicesOf(tok, t) == {i \in 1..Len(t) : t[i] = tok}

\* the values bound to the markers that follow the token tok in String()
BoundAfter(s, tok) ==
    LET r == StringOut(stmts[s], heap)
        mk == MarkerEntries(r, stmts[s].buffer)
    IN  {Args(s)[i] : i \in {j \in 1..Min(Len(mk), Len(Args(s))) :
                                \E k \in 1..(Len(r) - 1) :
                                    /\ r[k].tok = tok /\ r[k + 1] = mk[j]
                                    /\ Len(MarkerEntries(SubSeq(r, 1, k + 1), stmts[s].buffer)) = j}}

SingletonHolds(s, op, tok) ==
    LET c == CallsOf(hist[s], op)
    IN  c # <<>> =>
            /\ Cardinality(IndicesOf(tok, String(s))) = 1
            /\ BoundAfter(s, tok) = {c[Len(c)].args[1]}
            /\ (Len(c) >= 2 /\ last.op = op /\ last.s = s) => Len(Args(s)) = last.nargs

(***************************************************************************)
(* C4.  After N >= 1 calls of Limit on a statement, with any other calls   *)
(* interleaved, String() holds "LIMIT ?" once, Args() holds one value for  *)
(* it, the value of the last call, and the 2nd..N-th call does not grow    *)
(* Args(); likewise for Offset.                                            *)
(***************************************************************************)
C4_LimitSingleton ==
    \A s \in LiveIds :
        /\ SingletonHolds(s, "Limit", "LIMIT ")
        /\ SingletonHolds(s, "Offset", "OFFSET ")

\* the numbered markers that the text t holds, in text order
RECURSIVE NumberedToks(_)
NumberedToks(t) ==
    IF t = <<>> THEN <<>>
    ELSE (IF \E n \in 1..(2 * MaxCalls + 2) : Head(t) = Numbered(n) THEN <<Head(t)>> ELSE <<>>)
         \o NumberedToks(Tail(t))

(***************************************************************************)
(* C5.  In the numbered dialect, for a statement built by clause calls and *)
(* embeds that each supply as many values as their text has markers,       *)
(* String() holds the markers $1..$k once each, in increasing text order,   *)
(* with k = len(Args()).                                                   *)
(***************************************************************************)
C5_NumberedPlaceholders ==
    \A s \in LiveIds :
        (stmts[s].dialect = PostgreSQL /\ Balanced(s) /\ OnlyClauseCalls(s)) =>
            NumberedToks(Toks(Render(stmts[s], heap)))
                = [i \in 1..Len(Args(s)) |-> Numbered(i)]

(***************************************************************************)
(* C7.  When a host in the numbered dialect has embedded a statement with  *)
(* SubQuery (after a prefix), With or Union, whatever dialect the embedded *)
(* statement had and whether or not it had been rendered, String() of the  *)
(* host holds no marker numbered by the embedded statement: its markers    *)
(* were numbered by the host's render pass, are $1..$k in text order, and   *)
(* Args() lists the host's and the embedded values in that order.          *)
(***************************************************************************)
C7_NestedNumbering ==
    (/\ last.op \in {"SubQuery", "With", "Union"}
     /\ ~panicked
     /\ stmts[last.s].dialect = PostgreSQL
     /\ hist[last.s][Len(hist[last.s])].bal
     /\ ~(last.op = "SubQuery" /\ hist[last.s][Len(hist[last.s])].expr = <<>>)) =>
        LET r == StringOut(stmts[last.s], heap)
            new == {i \in 1..Len(r) : r[i].off > last.nbuf}
        IN  /\ \A i \in new : (\E n \in 1..(2 * MaxCalls + 2) : r[i].tok = Numbered(n)) => r[i].mk
            /\ \A i \in new : r[i].mk =>
                  /\ r[i].tok = Numbered(Cardinality({j \in 1..i : r[j].mk}))
                  /\ Cardinality({j \in 1..i : r[j].mk}) <= Len(Args(last.s))
                  /\ Args(last.s)[Cardinality({j \in 1..i : r[j].mk})] = intent[last.s][r[i].off]
            /\ Len(Args(last.s)) - last.nargs = Cardinality({i \in new : r[i].mk})

\* what a client observes of a statement
Observed(s) == [string |-> String(s), args |-> Args(s), dest |-> Dest(s)]

(***************************************************************************)
(* C8.  Immediately after q2 := q.Clone(), q2 has the String(), Args(),    *)
(* Dest() and clause content of q.                                         *)
(***************************************************************************)
C8_CloneEqual ==
    (last.op = "Clone" /\ ~panicked) =>
        /\ Observed(last.t) = Observed(last.s)
        /\ Parts(last.t) = Parts(last.s)
        /\ Toks(Render(stmts[last.t], heap)) = Toks(Render(stmts[last.s], heap))

\* s is a clone of t
CloneOf(s, t) ==
    /\ stmts[s].live /\ stmts[t].live
    /\ hist[s] # <<>> /\ hist[s][1].op = "Clone" /\ hist[s][1].pos = t

(***************************************************************************)
(* C9.  After q2 := q.Clone(), a clause call or To on one of the two       *)
(* leaves String(), Args() and Dest() of the other as they were.           *)
(***************************************************************************)
C9_CloneIndependent ==
    [][\A s, t \in StmtIds :
          (/\ CloneOf(s, t)
           /\ last'.op \in {"Select", "Where", "Limit", "To"}
           /\ ~panicked') =>
              /\ last'.s = s => Observed(t)' = Observed(t)
              /\ last'.s = t => Observed(s)' = Observed(s)]_vars

(***************************************************************************)
(* C10.  After any interleaving of clause calls, SetDialect, Invalidate,   *)
(* Clone and String calls, String() is the text a fresh render of the      *)
(* current fragments under the current dialect gives.                      *)
(***************************************************************************)
C10_CacheFresh ==
    \A s \in LiveIds : String(s) = Toks(Render(stmts[s], heap))

\* the buffer offsets of the spans of the parts in list order, with a 0
\* where a part follows a part of a smaller position
RECURSIVE SpacedSpans(_, _)
SpacedSpans(parts, n) ==
    IF n > Len(parts) THEN <<>>
    ELSE (IF n > 1 /\ parts[n].position > parts[n - 1].position THEN <<0>> ELSE <<>>)
         \o [k \in 1..(parts[n].bufHigh - parts[n].bufLow) |-> parts[n].bufLow + k]
         \o SpacedSpans(parts, n + 1)

\* the offsets of seq that are not those of an escape character
RECURSIVE Unescaped(_, _)
Unescaped(seq, esc) ==
    IF seq = <<>> THEN <<>>
    ELSE (IF Head(seq) \in esc THEN <<>> ELSE <<Head(seq)>>) \o Unescaped(Tail(seq), esc)

Offs(r) == [k \in 1..Len(r) |-> r[k].off]

(***************************************************************************)
(* C11.  String() is the spans of the fragments in list order, with one    *)
(* space before a fragment of a greater position than the one before it,   *)
(* none between fragments of one position, and no space at its start or    *)
(* its end; only markers (and their escape characters) are rewritten.      *)
(***************************************************************************)
C11_Spacing ==
    \A s \in LiveIds :
        LET r == Render(stmts[s], heap)
            exp == SpacedSpans(Parts(s), 1)
        IN  /\ Unescaped(Offs(r), EscapesOf(s)) = Unescaped(exp, EscapesOf(s))
            /\ stmts[s].dialect = DefaultDialect => Offs(r) = exp
            /\ \A i \in 1..Len(r) :
                  /\ r[i].off = 0 => r[i].tok = " "
                  /\ (r[i].off > 0 /\ ~r[i].mk) => r[i].tok = stmts[s].buffer[r[i].off]
                  /\ r[i].mk => stmts[s].buffer[r[i].off] = "?"
            /\ r # <<>> => (r[1].tok # " " /\ r[Len(r)].tok # " ")

\* the render pass under the default dialect: no marker is rewritten
Plain(s) == Render([stmts[s] EXCEPT !.dialect = DefaultDialect], heap)

\* the Clause call just made on s added one fragment after every fragment
\* of s, with the bytes of expr as its span, and appended its args
ClauseAppended(s) ==
    LET e == hist[s][Len(hist[s])]
        old == last.parts
        new == Parts(s)
        low == last.nbuf
        r == Render(stmts[s], heap)
    IN  /\ Len(new) = Len(old) + 1
        /\ SubSeq(new, 1, Len(old)) = old
        /\ \A k \in 1..Len(old) : old[k].position < new[Len(new)].position
        /\ new[Len(new)].bufLow = low
        /\ new[Len(new)].bufHigh = low + Len(e.expr)
        /\ Slice(stmts[s].buffer, low, low + Len(e.expr)) = e.expr
        /\ SubSeq(r, 1, Len(last.string)) = last.string
        /\ Offs(SubSeq(r, Len(last.string) + 1, Len(r)))
              = (IF old # <<>> THEN <<0>> ELSE <<>>) \o [k \in 1..Len(e.expr) |-> low + k]
        /\ Args(s) = last.args \o e.args

\* the first call on s was Clause: its fragment is the first of the list,
\* below every named slot, and the text begins with it
ClauseFirst(s) ==
    (hist[s] # <<>> /\ hist[s][1].op = "Clause") =>
        /\ Parts(s)[1].position = posStart
        /\ Parts(s)[1].position < posWith
        /\ Parts(s)[1].bufLow = 0
        /\ SubSeq(Toks(Plain(s)), 1, Len(hist[s][1].expr)) = hist[s][1].expr

(***************************************************************************)
(* C12.  Clause(expr, args...) adds a new fragment after every fragment    *)
(* present at the call: right after it String() ends with expr and Args()  *)
(* ends with args.  Called on an empty statement, its fragment is below    *)
(* every named slot and stays rendered first.                              *)
(***************************************************************************)
C12_ClauseLast ==
    \A s \in LiveIds :
        /\ ClauseFirst(s)
        /\ (last.op = "Clause" /\ last.s = s /\ ~panicked) => ClauseAppended(s)

\* Clause, a named clause with a value, then Clause with a value
C12_Witness ==
    \E s \in LiveIds :
        /\ last.op = "Clause" /\ last.s = s /\ ~panicked
        /\ hist[s][1].op = "Clause"
        /\ Len(hist[s]) >= 3
        /\ Len(Parts(s)) >= 3
        /\ Len(Args(s)) > last.nargs
        /\ last.nargs >= 1

\* the number of tokens of t that are in the set toks
Count(t, toks) == Cardinality({i \in 1..Len(t) : t[i] \in toks})

\* the Union call just made on s added one fragment after every fragment of
\* s: the keyword, then the text of the nested statement; its args are last
UnionAppended(s) ==
    LET e == hist[s][Len(hist[s])]
        old == last.parts
        new == Parts(s)
        r == Render(stmts[s], heap)
    IN  /\ Len(new) = Len(old) + 1
        /\ SubSeq(new, 1, Len(old)) = old
        /\ \A k \in 1..Len(old) : old[k].position < new[Len(new)].position
        /\ new[Len(new)].position >= posUnion
        /\ new[Len(new)].bufLow = last.nbuf
        /\ new[Len(new)].bufHigh = Len(stmts[s].buffer)
        /\ Slice(stmts[s].buffer, last.nbuf, last.nbuf + 1) = e.expr
        /\ SubSeq(r, 1, Len(last.string)) = last.string
        /\ Offs(SubSeq(r, Len(last.string) + 1, Len(r)))
              = (IF old # <<>> THEN <<0>> ELSE <<>>)
                \o [k \in 1..(Len(stmts[s].buffer) - last.nbuf) |-> last.nbuf + k]
        /\ Args(s) = last.args \o e.args

WithAndNamed(s) ==
    \A k \in 1..Len(hist[s]) : hist[s][k].op \in {"With", "Where", "Limit", "Union"}

\* WITH, then the entries name AS ( text ) of the calls c, joined by ", "
WithText(c) ==
    <<"WITH">> \o
    Flatten([k \in 1..Len(c) |->
                (IF k = 1 THEN <<" ">> ELSE <<", ">>) \o c[k].expr \o c[k].text \o <<")">>])

(***************************************************************************)
(* C14.  k With calls, interleaved with calls of other named clauses,      *)
(* render one WITH keyword and the k entries name AS ( text ) joined by    *)
(* ", " in call order, before every other clause; the args of the nested   *)
(* statements come first in Args(), in call order.                         *)
(***************************************************************************)
C14_WithEntries ==
    \A s \in LiveIds :
        LET c == CallsOf(hist[s], "With")
            a == Flatten([k \in 1..Len(c) |-> c[k].args])
        IN  (c # <<>> /\ WithAndNamed(s) /\ ~panicked) =>
                /\ SlotText(s, posWith) = WithText(c)
                /\ SubSeq(Toks(Plain(s)), 1, Len(WithText(c))) = WithText(c)
                /\ Count(Toks(Plain(s)), {"WITH"}) = 1
                /\ \A k, j \in 1..Len(Parts(s)) :
                      (Parts(s)[k].position = posWith /\ Parts(s)[j].position # posWith) => k < j
                /\ Len(Args(s)) >= Len(a)
                /\ SubSeq(Args(s), 1, Len(a)) = a

\* two With calls around a Where with a value, the first nested statement
\* with a value
C14_Witness ==
    \E s \in LiveIds :
        /\ Len(hist[s]) = 3 /\ ~panicked
        /\ hist[s][1].op = "With" /\ hist[s][1].args # <<>>
        /\ hist[s][2].op = "Where" /\ hist[s][2].args # <<>>
        /\ hist[s][3].op = "With"
        /\ Len(Args(s)) >= 2

\* ---- C15: InsertInto and Set pair columns with values

RECURSIVE IsSubseq(_, _)
IsSubseq(a, b) ==
    IF a = <<>> THEN TRUE
    ELSE IF b = <<>> THEN FALSE
    ELSE IF Head(a) = Head(b) THEN IsSubseq(Tail(a), Tail(b))
    ELSE IsSubseq(a, Tail(b))

\* the Set and SetExpr calls of s, in call order
SetCalls(s) == SelectSeq(hist[s], LAMBDA e : e.op \in {"Set", "SetExpr"})

Fields == {Field(n) [1] : n \in 1..(MaxCalls + 1)}

\* the first index of tok in t, 0 when absent
FirstOf(tok, t) == IF IndicesOf(tok, t) = {} THEN 0
                   ELSE CHOOSE i \in IndicesOf(tok, t) : \A j \in IndicesOf(tok, t) : i <= j

\* s began with InsertInto, has no other verb, and at least one Set call
InsertWithSets(s) ==
    /\ ~panicked
    /\ Len(hist[s]) > 0 /\ hist[s][1].op = "InsertInto"
    /\ \A k \in 2..Len(hist[s]) : hist[s][k].op \notin {"InsertInto", "Update"}
    /\ SetCalls(s) # <<>>

ColumnsPaired(s) ==
    LET sets == SetCalls(s)
        t    == Toks(Plain(s))
        open == FirstOf("(", t)
        vals == FirstOf(") VALUES (", t)
    IN  /\ 0 < open /\ open < vals
        /\ SelectSeq(SubSeq(t, open + 1, vals - 1), LAMBDA x : x \in Fields)
               = Flatten([k \in 1..Len(sets) |-> sets[k].text])
        /\ IsSubseq(Flatten([k \in 1..Len(sets) |-> sets[k].expr]),
                    SubSeq(t, vals + 1, Len(t)))
        /\ IsSubseq(Flatten([k \in 1..Len(sets) |-> sets[k].args]), Args(s))

\* C15: after InsertInto and n >= 1 Set/SetExpr calls, with other clause calls
\* interleaved, the column list holds the n field names in call order, the
\* VALUES list holds the n value expressions in the same order, and the
\* value args are in Args() in call order.
C15_InsertPairs == \A s \in LiveIds : InsertWithSets(s) => ColumnsPaired(s)

\* ---- C16: Expr continues the current position

RECURSIVE SumArgLen(_)
SumArgLen(parts) == IF parts = <<>> THEN 0 ELSE Head(parts).argLen + SumArgLen(Tail(parts))

\* the fragments of parts placed at a position up to pos
UpTo(parts, pos) == SelectSeq(parts, LAMBDA x : x.position <= pos)

\* what the Expr call just made on s did to the fragments, the buffer and the args
ExprAppended(s) ==
    LET e    == hist[s][Len(hist[s])]
        old  == last.parts
        new  == Parts(s)
        low  == last.nbuf
        high == Len(stmts[s].buffer)
        at   == {k \in 1..Len(old) : old[k].position = e.pos}
        i    == IF at = {} THEN Len(UpTo(old, e.pos))
                ELSE CHOOSE k \in at : \A j \in at : j <= k
        sep  == IF at = {} THEN <<>>
                ELSE IF old[i].hasExpr THEN <<", ">> ELSE <<" ">>
        part == [position |-> e.pos, bufLow |-> low, bufHigh |-> high,
                 hasExpr |-> TRUE, argLen |-> Len(e.args)]
    IN  /\ stmts[s].position = e.pos
        /\ Len(hist[s]) > 1 => e.pos = hist[s][Len(hist[s]) - 1].pos
        /\ high = low + Len(sep) + Len(e.expr)
        /\ Slice(stmts[s].buffer, low, high) = sep \o e.expr
        /\ IF at # {} /\ old[i].bufHigh = low
           THEN new = [old EXCEPT ![i].bufHigh = high, ![i].hasExpr = TRUE,
                                  ![i].argLen = @ + Len(e.args)]
           ELSE new = SubSeq(old, 1, i) \o <<part>> \o SubSeq(old, i + 1, Len(old))
        /\ Args(s) = insertAt(last.args, e.args, SumArgLen(UpTo(old, e.pos)))

\* C16: Expr(e, args) appends e to the slot of the current position (the one
\* the most recent clause call recorded), after ", " when that slot has body
\* content, and splices args at the end of that slot's parameters.
C16_ExprAppends ==
    \A s \in LiveIds : (last.op = "Expr" /\ last.s = s /\ ~panicked) => ExprAppended(s)

\* an Expr that joined a slot with a body and spliced its arg before a later slot's
C16_Witness ==
    /\ last.op = "Expr" /\ last.s = 1 /\ ~panicked
    /\ LET e == hist[1][Len(hist[1])]
       IN  /\ e.args # <<>>
           /\ \E k \in 1..Len(last.parts) : last.parts[k].position = e.pos /\ last.parts[k].hasExpr
           /\ SumArgLen(UpTo(last.parts, e.pos)) \in 1..(Len(last.args) - 1)

\* ---- C17: Paginate sets offset and limit

\* the args bound to the fragments of position pos
SlotArgs(s, pos) ==
    LET parts == Parts(s)
        below == SelectSeq(parts, LAMBDA x : x.position < pos)
    IN  SubSeq(Args(s), SumArgLen(below) + 1, SumArgLen(UpTo(parts, pos)))

\* the OFFSET in force: the bound value, 0 without an OFFSET clause
EffectiveOffset(s) ==
    IF \E k \in 1..Len(Parts(s)) : Parts(s)[k].position = posOffset
    THEN SlotArgs(s, posOffset)
    ELSE <<0>>

Paginated(s) ==
    LET e        == hist[s][Len(hist[s])]
        page     == Max(e.expr[1], 1)
        pageSize == Max(e.expr[2], 1)
    IN  /\ SlotArgs(s, posLimit) = <<pageSize>>
        /\ EffectiveOffset(s) = <<(page - 1) * pageSize>>

\* C17: after Paginate(page, pageSize), whatever was called before, LIMIT is
\* bound to max(pageSize, 1) and the effective offset (the bound OFFSET, or 0
\* without an OFFSET clause) is (max(page, 1) - 1) * max(pageSize, 1).
C17_Paginate ==
    \A s \in LiveIds : (last.op = "Paginate" /\ last.s = s /\ ~panicked) => Paginated(s)

\* ---- C18: the nested statement is released after it was copied

EmbedOps == {"SubQuery", "With", "Union"}

\* i has embedded a statement
HasEmbedded(i) == \E k \in 1..Len(hist[i]) : hist[i][k].op \in EmbedOps

\* the embedding call just made took the text and the args of the nested
\* statement into the host and put the nested statement back into the pool
CopiedThenReleased ==
    LET e == hist[last.s][Len(hist[last.s])]
        q == stmts[last.t]
    IN  /\ last.views[last.t].live /\ ~q.live
        /\ q.parts.len = 0 /\ q.args = <<>> /\ q.buffer = <<>> /\ ~q.hasSql
        /\ Occurs(e.text, Slice(stmts[last.s].buffer, last.nbuf, Len(stmts[last.s].buffer)))
        /\ Occurs(e.args, Args(last.s))
        /\ Len(Args(last.s)) = last.nargs + Len(e.args)

\* a call on another statement leaves String() and Args() of a host alone
HostsKept ==
    \A i \in LiveIds :
        (HasEmbedded(i) /\ i \notin {last.s, last.t} /\ last.views[i].live)
            => Views[i] = last.views[i]

\* C18: SubQuery, With and Union release the nested statement once its text
\* and args are in the host, and String() and Args() of the host do not
\* change when the released storage is taken from the pool and mutated.
C18_ReleasedAfterCopy ==
    ~panicked => /\ (last.op \in EmbedOps => CopiedThenReleased)
                 /\ HostsKept

\* ---- C19: the fragment list is sorted

\* non-decreasing positions, and buffer order within a position
SortedParts(parts) ==
    \A k \in 1..(Len(parts) - 1) :
        /\ parts[k].position <= parts[k + 1].position
        /\ parts[k].position = parts[k + 1].position => parts[k].bufLow < parts[k + 1].bufLow

\* C19: after any sequence of clause calls the fragment list is sorted
\* non-decreasing by position, and fragments of one position are adjacent and
\* in the order their content was written to the buffer.
C19_Sorted == \A s \in LiveIds : ~panicked => SortedParts(Parts(s))

\* a fragment placed before fragments written earlier, and two fragments of one position
C19_Witness ==
    /\ ~panicked /\ stmts[1].live
    /\ \E k \in 1..(Len(Parts(1)) - 1) : Parts(1)[k].bufLow > Parts(1)[k + 1].bufLow
    /\ \E k \in 1..(Len(Parts(1)) - 1) : Parts(1)[k].position = Parts(1)[k + 1].position

\* ---- C20: SubQuery adds one fragment and inserts the nested args

\* what the SubQuery call just made on s did: its bytes (a separator, the
\* prefix, the nested text, the suffix) end the buffer and belong to one
\* fragment of the current position, a new one or the last one of that
\* position when it ended the buffer, and the nested args are inserted after
\* the args of the fragments up to that position
SubQueryAdded(s) ==
    LET e    == hist[s][Len(hist[s])]
        old  == last.parts
        new  == Parts(s)
        buf  == stmts[s].buffer
        own  == e.expr \o e.text \o <<")">>
        n    == Len(e.args)
        i    == Len(UpTo(old, e.pos))
        part == [position |-> e.pos, bufLow |-> last.nbuf, bufHigh |-> Len(buf),
                 hasExpr |-> TRUE, argLen |-> n]
    IN  /\ stmts[s].position = e.pos
        /\ \E sep \in {<<>>, <<" ">>, <<", ">>, <<" AND ">>} :
              Slice(buf, last.nbuf, Len(buf)) = sep \o own
        /\ \/ \E h \in BOOLEAN :
                 new = SubSeq(old, 1, i) \o <<[part EXCEPT !.hasExpr = h]>>
                                         \o SubSeq(old, i + 1, Len(old))
           \/ /\ i > 0 /\ old[i].position = e.pos /\ old[i].bufHigh = last.nbuf
              /\ new = [old EXCEPT ![i].bufHigh = Len(buf), ![i].argLen = @ + n,
                                   ![i].hasExpr = (@ \/ e.expr # <<>>)]
        /\ Args(s) = insertAt(last.args, e.args, SumArgLen(SubSeq(old, 1, i)))
        /\ Len(Args(s)) = last.nargs + n

\* C20: SubQuery(prefix, suffix, nested), in any host state and with any
\* prefix, the empty one included, adds prefix + nested text + suffix as one
\* fragment of the current position whose span is exactly the bytes the call
\* wrote, and inserts the nested args, in order, at the offset of that fragment.
C20_SubQueryFragment ==
    \A s \in LiveIds : (last.op = "SubQuery" /\ last.s = s /\ ~panicked) => SubQueryAdded(s)

\* ---- C21: a value refresh changes only the slots of the matched fragment

\* the last fragment of parts at position pos, 0 when there is none
LastAt(parts, pos) ==
    LET at == {k \in 1..Len(parts) : parts[k].position = pos}
    IN  IF at = {} THEN 0 ELSE CHOOSE k \in at : \A j \in at : j <= k

\* the call just made on s had no body and found a fragment of its position
Refreshed(s) ==
    /\ last.s = s /\ ~panicked /\ last.op \in {"Where", "Limit", "Offset"}
    /\ hist[s][Len(hist[s])].expr = <<>>
    /\ LastAt(last.parts, hist[s][Len(hist[s])].pos) # 0

OnlyOwnSlots(s) ==
    LET e  == hist[s][Len(hist[s])]
        i  == LastAt(last.parts, e.pos)
        lo == SumArgLen(SubSeq(last.parts, 1, i - 1))
        hi == lo + last.parts[i].argLen
    IN  /\ Len(stmts[s].buffer) = last.nbuf
        /\ Parts(s) = last.parts
        /\ Len(Args(s)) = last.nargs
        /\ \A j \in 1..last.nargs : (j <= lo \/ j > hi) => Args(s)[j] = last.args[j]

\* C21: when a call with an empty body hits a fragment of its position, for
\* any number of supplied args, the buffer, the fragment list, len(Args()) and
\* every parameter owned by another fragment are unchanged.
C21_RefreshFrame == \A s \in LiveIds : Refreshed(s) => OnlyOwnSlots(s)

\* ---- C22: every clause call leaves the render cache empty

ClauseOps == {"Select", "From", "Where", "GroupBy", "Having", "OrderBy", "Returning",
              "Limit", "Offset", "Expr", "Clause", "InsertInto", "Update", "Set", "SetExpr",
              "Paginate", "SubQuery", "With", "Union"}

\* C22: on return of every clause call, a value refresh included, the
\* statement holds no cached text, so the next String() renders anew.
C22_CacheEmptied ==
    \A s \in LiveIds : (last.op \in ClauseOps /\ last.s = s /\ ~panicked) => ~stmts[s].hasSql

\* ---- C23: spans lie in the buffer and are disjoint

SpansInBuffer(parts, n) ==
    \A k \in 1..Len(parts) : 0 <= parts[k].bufLow /\ parts[k].bufLow <= parts[k].bufHigh
                             /\ parts[k].bufHigh <= n

SpansDisjoint(parts) ==
    \A k, j \in 1..Len(parts) :
        k < j => \/ parts[k].bufHigh <= parts[j].bufLow
                 \/ parts[j].bufHigh <= parts[k].bufLow

\* a span that grew in the call just made ended the buffer before the call
GrewAtEnd(s) ==
    \A k \in 1..Len(Parts(s)) : \A j \in 1..Len(last.parts) :
        (/\ last.parts[j].position = Parts(s)[k].position
         /\ last.parts[j].bufLow = Parts(s)[k].bufLow
         /\ last.parts[j].bufHigh < Parts(s)[k].bufHigh) => last.parts[j].bufHigh = last.nbuf

\* C23: the spans of the fragments lie within the buffer and are pairwise
\* disjoint, and a span grows only when it ended at the write position of the
\* buffer, so no span covers bytes written for another fragment.
C23_SpansDisjoint ==
    \A s \in LiveIds :
        ~panicked => /\ SpansInBuffer(Parts(s), Len(stmts[s].buffer))
                     /\ SpansDisjoint(Parts(s))
                     /\ (last.op \in ClauseOps /\ last.s = s) => GrewAtEnd(s)

\* ---- C24: a slot begins with its keyword once

\* s has made the keyword-bearing call of position pos
KeywordCalled(s, pos) ==
    \E k \in 1..Len(hist[s]) :
        hist[s][k].pos = pos /\ hist[s][k].op \in {"Select", "From", "Where"}

KeywordOnce(s, pos) ==
    LET t == SlotText(s, pos)
    IN  /\ t # <<>> /\ t[1] = KeywordOf(pos)
        /\ Count(t, {KeywordOf(pos)}) = 1

\* C24: a slot that got its keyword-bearing call (From, Where) and keyword-less
\* continuations (Join, In, Expr), in whatever order, renders beginning with
\* the clause keyword, exactly once.
C24_KeywordOnce ==
    \A s \in LiveIds : \A pos \in {posFrom, posWhere} :
        (~panicked /\ KeywordCalled(s, pos)) => KeywordOnce(s, pos)

\* ---- C25: a Clause fragment never takes the position of a named slot

NamedPositions ==
    {posWith, posInsert, posInsertFields, posValues, posDelete, posUpdate, posSet, posSelect,
     posInto, posFrom, posWhere, posGroupBy, posHaving, posUnion, posOrderBy, posLimit,
     posOffset, posReturning}

\* C25: the position of a Clause fragment (last position + 10, or posStart)
\* is never the position of a named clause slot, so no named clause call has
\* a Clause fragment as its matching fragment.
C25_ClauseApart ==
    \A s \in LiveIds : \A k \in 1..Len(hist[s]) :
        (~panicked /\ hist[s][k].op = "Clause") => hist[s][k].pos \notin NamedPositions

\* ---- C26: the process-wide dialect a statement renders under

Born(s) == stmts[s].live /\ hist[s] # <<>> /\ hist[s][1].op = "New"

\* the process-wide dialect when New made s
BirthDialect(s) == hist[s][1].text[1]

RenderedUnder(s, d) == Toks(stmts[s].sql) = Toks(Render([stmts[s] EXCEPT !.dialect = d], heap))

\* C26 as claimed: the text String() returns for a statement made by New is
\* its render under the process-wide dialect in effect at that String()
\* call, not under the one in effect when it was made.
C26_RenderTimeDialect ==
    \A s \in StmtIds :
        (~panicked /\ Born(s) /\ last.op = "String" /\ last.s = s /\ stmts[s].hasSql)
            => RenderedUnder(s, selectedDialect)

\* C26 amended: a statement made by New carries the process-wide dialect
\* read when it was made, and the text String() caches for it is its render
\* under that dialect, whatever the process-wide dialect has become since.
C26_CreationTimeDialect ==
    \A s \in StmtIds :
        (~panicked /\ Born(s)) =>
            /\ stmts[s].dialect = BirthDialect(s)
            /\ stmts[s].hasSql => RenderedUnder(s, BirthDialect(s))

\* a statement made under PostgreSQL and rendered, numbered, after the
\* process-wide dialect went back to the default
C26_Witness ==
    \E s \in StmtIds :
        /\ ~panicked /\ Born(s) /\ last.op = "String" /\ last.s = s
        /\ BirthDialect(s) = PostgreSQL /\ selectedDialect = DefaultDialect
        /\ \E k \in 1..Len(stmts[s].sql) : stmts[s].sql[k].tok = Numbered(1)

\* ---- C27: the accesses to the process-wide dialect variable

\* C27: every access to selectedDialect is an atomic store or load, so
\* SetDialect in one goroutine and the creation of a statement in another
\* never are a data race: no two goroutines are about to access the
\* variable, one writing, unless both accesses are atomic.
C27_NoDataRace == ~panicked => ~DataRace

\* ---- C28: escape characters that escape no marker

\* the buffer offsets of the fragment part that hold a '\' not followed,
\* within the fragment, by a marker character
StrayAt(s, part) ==
    {o \in (part.bufLow + 1)..part.bufHigh :
        /\ stmts[s].buffer[o] = Esc
        /\ (o = part.bufHigh \/ stmts[s].buffer[o + 1] # "?")}

\* the offsets of the fragment part that hold the '\' of an escaped marker
EscapeAt(s, part) ==
    {o \in (part.bufLow + 1)..(part.bufHigh - 1) :
        stmts[s].buffer[o] = Esc /\ stmts[s].buffer[o + 1] = "?"}

\* the places of the rendered text r that stem from the buffer offset o
EmittedAt(r, o) == {k \in 1..Len(r) : r[k].off = o}

\* the unescaped marker characters of the fragments that own params
CountedMarkers(s) ==
    {o \in 1..Len(stmts[s].buffer) :
        \E n \in 1..Len(Parts(s)) :
            /\ Parts(s)[n].argLen > 0
            /\ o > Parts(s)[n].bufLow /\ o <= Parts(s)[n].bufHigh
            /\ stmts[s].buffer[o] = "?"
            /\ (o - 1) \notin EscapeAt(s, Parts(s)[n])}

\* C28: in the numbered dialect a fragment with a '\' that is followed by no
\* marker character (at the end of the fragment or before another byte) is
\* copied through at that point: the '\' is emitted once, unchanged, every
\* byte of the fragment but the '\' of an escaped marker is emitted exactly
\* once, and the placeholders are numbered $1..$k, k the number of unescaped
\* markers, so the '\' advances no counter.
C28_StrayEscape ==
    \A s \in LiveIds :
        (~panicked /\ stmts[s].dialect = PostgreSQL /\ last.op = "String" /\ last.s = s) =>
            \A n \in 1..Len(Parts(s)) :
                LET part == Parts(s)[n]
                    r == stmts[s].sql
                IN  StrayAt(s, part) # {} =>
                        /\ \A o \in StrayAt(s, part) :
                               \A k \in EmittedAt(r, o) : r[k].tok = Esc /\ ~r[k].mk
                        /\ \A o \in (part.bufLow + 1)..part.bufHigh :
                               Cardinality(EmittedAt(r, o)) =
                                   IF part.argLen > 0 /\ o \in EscapeAt(s, part) THEN 0 ELSE 1
                        /\ NumberedInOrder(r)
                        /\ Len(MarkersOf(r)) = Cardinality(CountedMarkers(s))

\* a rendered fragment that owns params and holds both a '\' before another
\* byte and a '\' at its end, with a second placeholder after them
C28_Witness ==
    \E s \in LiveIds :
        /\ ~panicked /\ stmts[s].dialect = PostgreSQL /\ last.op = "String" /\ last.s = s
        /\ \E n \in 1..Len(Parts(s)) :
              LET part == Parts(s)[n]
              IN  /\ part.argLen > 0
                  /\ part.bufHigh \in StrayAt(s, part)
                  /\ \E o \in StrayAt(s, part) : o < part.bufHigh
        /\ \E k \in 1..Len(stmts[s].sql) : stmts[s].sql[k].tok = Numbered(2)

\* ---- C29: a statement taken from the pool is like a never-used one

\* what the constructor last called returns when stmtPool hands it a
\* statement newStmt has just made
NeverUsed(s) ==
    IF last.op = "New"
    THEN New(newStmt(stmts[s].parts.arr), heap, stmts[s].dialect, <<"SELECT">>, <<>>)
    ELSE Machine(getStmt(newStmt(stmts[s].parts.arr), stmts[s].dialect), heap)

\* C29: the statement WithDialect or New has just returned has the
\* fragments, params, dest, cached text and current position of a never-used
\* statement, whatever the statements closed before it contained.
C29_FreshFromPool ==
    \A s \in StmtIds :
        (~panicked /\ last.op \in {"New", "WithDialect"} /\ last.s = s) =>
            LET fresh == NeverUsed(s)
            IN  /\ Parts(s) = PartsOf(fresh.heap, fresh.stmt.parts)
                /\ stmts[s].args = fresh.stmt.args
                /\ stmts[s].dest = fresh.stmt.dest
                /\ stmts[s].hasSql = fresh.stmt.hasSql
                /\ stmts[s].buffer = fresh.stmt.buffer
                /\ stmts[s].position = fresh.stmt.position

\* ---- C30: the strings String() has returned

\* C30: every string String() has returned reads the text it had when it
\* was returned, whatever was called since on its statement or on another:
\* clause calls, Invalidate, Close, and the String() calls of statements that
\* take their buffers from the pool.
C30_StringsKept ==
    ~panicked => \A h \in pool.held : StringAt(pool, h.arr, Len(h.text)) = h.text


============================================================================
